---- MODULE Spec2Model ----
(***************************************************************************)
(* Trailing stop-loss / take-profit and safety-order engine of             *)
(* trailingstoploss_tp.py.                                                 *)
(*                                                                         *)
(* Percentages are integers in hundredths of a percent (3.5% is 350), so   *)
(* that the two-decimal rounding of the code is rounding to an integer.    *)
(* Increment factors are integers in hundredths (0.5 is 50).               *)
(***************************************************************************)
EXTENDS Integers, Sequences, FiniteSets, TLC

VARIABLES
    deal_profit,            \* table deal_profit    (set of rows)
    deal_safety,            \* table deal_safety    (set of rows)
    pending_orders,         \* table pending_orders (set of rows)
    orders,                 \* platform: active manual safety orders per deal
    running,                \* the poller process is alive
    section_profit_config,  \* profit-config of the bot's section
    section_safety_config,  \* safety-config of the bot's section
    last,                   \* record of the most recent evaluation cycle
    sel,                    \* inputs and result of a get_settings lookup
    now,                    \* the clock, int(time.time())
    bots,                   \* table bots (botid, next_processing_timestamp)
    safety_modes,           \* safety-mode of each tsl_tp_ section of the config
    section_botids,         \* botids of each tsl_tp_ section of the config
    intervals,              \* check-interval and monitor-interval of the settings
    wake                    \* record of the most recent wake-up of the main loop

\* the variables of the scheduler
sched == <<now, bots, safety_modes, section_botids, intervals, wake>>

vars == <<deal_profit, deal_safety, pending_orders, orders, running,
          section_profit_config, section_safety_config, last, sel, sched>>

-----------------------------------------------------------------------------
(* Arithmetic *)

Abs(x) == IF x < 0 THEN -x ELSE x

\* round(n / d) with d > 0; exact ties go to the even neighbour as in Python
RoundDiv(n, d) ==
    LET q == n \div d
        r == n - q * d
    IN  IF 2 * r < d THEN q
        ELSE IF 2 * r > d THEN q + 1
        ELSE IF q % 2 = 0 THEN q ELSE q + 1

\* x * factor, factor in hundredths, rounded to two decimals
Scale(x, factor) == RoundDiv(x * factor, 100)

-----------------------------------------------------------------------------
(* Threshold table lookup *)

NoSettings == [none |-> TRUE]

RECURSIVE get_settings_from(_, _, _, _, _)
get_settings_from(section_config, current_profit, current_so_level, i, settings) ==
    IF i > Len(section_config) THEN settings
    ELSE LET entry == section_config[i]
         IN  get_settings_from(section_config, current_profit, current_so_level, i + 1,
                 IF /\ current_profit >= entry.activation_percentage
                    /\ current_so_level >= entry.activation_so_count
                 THEN entry ELSE settings)

\* a plausible slip: stop at the first matching entry
RECURSIVE get_settings_first(_, _, _)
get_settings_first(section_config, current_profit, current_so_level) ==
    IF section_config = <<>> THEN NoSettings
    ELSE LET entry == Head(section_config)
         IN  IF /\ current_profit >= entry.activation_percentage
                /\ current_so_level >= entry.activation_so_count
             THEN entry
             ELSE get_settings_first(Tail(section_config), current_profit, current_so_level)

get_settings(section_config, current_profit, current_so_level) ==
    get_settings_from(section_config, current_profit, current_so_level, 1, NoSettings)

-----------------------------------------------------------------------------
(* Configuration tables *)

ProfitEntry(ap, so, sl, slf, tpf) ==
    [activation_percentage |-> ap, activation_so_count |-> so,
     initial_stoploss_percentage |-> sl, sl_timeout |-> 0,
     sl_increment_factor |-> slf, tp_increment_factor |-> tpf]

SafetyEntry(ap, so, ib, bf) ==
    [activation_percentage |-> ap, activation_so_count |-> so,
     initial_buy_percentage |-> ib, buy_increment_factor |-> bf]

\* the table of the activation scenario
ScenarioProfitConfig == << ProfitEntry(200, 0, 50, 0, 0) >>
\* the default profit-config written by load_config
DefaultProfitConfig == << ProfitEntry(200, 0, 50, 0, 0), ProfitEntry(300, 0, 200, 40, 40) >>
\* a table whose later tier carries a smaller base stop-loss
DescendingProfitConfig == << ProfitEntry(200, 0, 150, 0, 0), ProfitEntry(300, 0, 50, 0, 0) >>
\* the tie-break table [(0,0,A), (2.0,0,B), (2.0,1,C)]
TieBreakProfitConfig ==
    << ProfitEntry(0, 0, 10, 0, 0), ProfitEntry(200, 0, 20, 0, 0), ProfitEntry(200, 1, 30, 0, 0) >>
\* tiers from tightest to loosest: the last qualifying entry is not the tightest
UnorderedProfitConfig == << ProfitEntry(300, 0, 200, 40, 40), ProfitEntry(200, 0, 50, 0, 0) >>

ProfitConfigs ==
    { ScenarioProfitConfig, DefaultProfitConfig, DescendingProfitConfig }

\* the default safety-config written by load_config
DefaultSafetyConfig == << SafetyEntry(25, 0, 0, 50) >>

\* a tier that buys half a percent past the safety order
InitialBuySafetyConfig == << SafetyEntry(25, 0, 50, 50) >>

\* a deeper tier that buys closer to the safety order than the first tier
ShallowerSafetyConfig == << SafetyEntry(25, 0, 100, 0), SafetyEntry(300, 0, 0, 0) >>

SafetyConfigs == { DefaultSafetyConfig, InitialBuySafetyConfig, ShallowerSafetyConfig }

-----------------------------------------------------------------------------
(* The persisted store.  A state s threaded through one bot evaluation is  *)
(* a record: dp, ds, po are the three tables, ex the platform's count of   *)
(* active manual safety orders per deal, calls the remote calls issued for *)
(* the deal under evaluation, events the events it logged, step2 the        *)
(* SafetyState with which ordinary safety evaluation was entered (if it    *)
(* was), raised whether an exception left the evaluation.                  *)

\* "dealid INT Primary Key": no two rows of a table carry the same dealid
PrimaryKey(table) == \A r1, r2 \in table : r1.dealid = r2.dealid => r1 = r2

\* a table created without the key
NoPrimaryKey(table) == TRUE

\* the schema of pending_orders
pending_orders_schema(table) == PrimaryKey(table)

HasRow(table, deal_id) == \E r \in table : r.dealid = deal_id

\* SELECT ... WHERE dealid = deal_id, fetchone()
FetchOne(table, deal_id) == CHOOSE r \in table : r.dealid = deal_id

ProfitRow(deal_id, bot_id, lpp, sl, tp) ==
    [dealid |-> deal_id, botid |-> bot_id, last_profit_percentage |-> lpp,
     last_readable_sl_percentage |-> sl, last_readable_tp_percentage |-> tp]

SafetyRow(deal_id, bot_id, lpp, afp, nso, filled, shift) ==
    [dealid |-> deal_id, botid |-> bot_id, last_profit_percentage |-> lpp,
     add_funds_percentage |-> afp, next_so_percentage |-> nso,
     filled_so_count |-> filled, shift_percentage |-> shift]

PendingRow(deal_id, bot_id, order_id, cancel_at, number_of_so, nso, shift) ==
    [dealid |-> deal_id, botid |-> bot_id, order_id |-> order_id,
     cancel_at_percentage |-> cancel_at, number_of_so |-> number_of_so,
     next_so_percentage |-> nso, shift_percentage |-> shift]

is_new_deal(s, deal_id) == ~ HasRow(s.dp, deal_id)

get_profit_db_data(s, deal_id) == FetchOne(s.dp, deal_id)

get_safety_db_data(s, deal_id) == FetchOne(s.ds, deal_id)

NoOrder == [none |-> TRUE]

get_pending_order_db_data(s, deal_id) ==
    IF HasRow(s.po, deal_id) THEN FetchOne(s.po, deal_id) ELSE NoOrder

Call(s, name) == [s EXCEPT !.calls = Append(@, name)]

Event(s, name) == [s EXCEPT !.events = @ \cup {name}]

Raise(s) == [s EXCEPT !.raised = TRUE]

\* the process is terminated from outside; what was committed stays
Killed(s) == [s EXCEPT !.raised = TRUE, !.events = @ \cup {"killed"}]

add_deal_in_db(s, deal_id, bot_id) ==
    [s EXCEPT !.dp = @ \cup {ProfitRow(deal_id, bot_id, 0, 0, 0)},
              !.ds = @ \cup {SafetyRow(deal_id, bot_id, 0, 0, 0, 0, 0)}]

update_profit_in_db(s, deal_id, tp_percentage, readable_sl_percentage, readable_tp_percentage) ==
    [s EXCEPT !.dp = { IF r.dealid = deal_id
                       THEN [r EXCEPT !.last_profit_percentage = tp_percentage,
                                      !.last_readable_sl_percentage = readable_sl_percentage,
                                      !.last_readable_tp_percentage = readable_tp_percentage]
                       ELSE r : r \in @ }]

update_safetyorder_in_db(s, deal_id, filled_so_count, next_so_percentage, shift_percentage) ==
    [s EXCEPT !.ds = { IF r.dealid = deal_id
                       THEN [r EXCEPT !.next_so_percentage = next_so_percentage,
                                      !.filled_so_count = filled_so_count,
                                      !.shift_percentage = shift_percentage]
                       ELSE r : r \in @ }]

update_safetyorder_monitor_in_db(s, deal_id, last_profit_percentage, add_funds_percentage) ==
    [s EXCEPT !.ds = { IF r.dealid = deal_id
                       THEN [r EXCEPT !.last_profit_percentage = last_profit_percentage,
                                      !.add_funds_percentage = add_funds_percentage]
                       ELSE r : r \in @ }]

\* INSERT INTO pending_orders: sqlite raises IntegrityError on a duplicate key
add_pending_order_in_db(s, deal_id, bot_id, active_order_id, cancel_at_percentage, number_of_so, next_so_percentage, shift_percentage) ==
    LET row == PendingRow(deal_id, bot_id, active_order_id, cancel_at_percentage,
                          number_of_so, next_so_percentage, shift_percentage)
    IN  IF pending_orders_schema(s.po \cup {row})
        THEN [s EXCEPT !.po = @ \cup {row}]
        ELSE Raise(s)

\* a plausible slip: the DELETE matches no row
remove_pending_order_no_match(s, deal_id, order_id) == s

remove_pending_order_from_db(s, deal_id, order_id) ==
    [s EXCEPT !.po = { r \in @ : ~ (r.dealid = deal_id /\ r.order_id = order_id) }]

\* a plausible slip: the DELETE on pending_orders is missing
remove_closed_deals_states_only(s, bot_id, current_deals) ==
    IF current_deals # <<>>
    THEN LET keep(r) == ~ (r.botid = bot_id /\ \A i \in 1..Len(current_deals) : r.dealid # current_deals[i])
         IN  [s EXCEPT !.dp = { r \in @ : keep(r) },
                       !.ds = { r \in @ : keep(r) }]
    ELSE s

remove_closed_deals(s, bot_id, current_deals) ==
    IF current_deals # <<>>
    THEN LET keep(r) == ~ (r.botid = bot_id /\ \A i \in 1..Len(current_deals) : r.dealid # current_deals[i])
         IN  [s EXCEPT !.dp = { r \in @ : keep(r) },
                       !.ds = { r \in @ : keep(r) },
                       !.po = { r \in @ : keep(r) }]
    ELSE s

\* a plausible slip: the DELETE statements lack the WHERE clause
remove_all_deals_any_bot(s, bot_id) == [s EXCEPT !.dp = {}, !.ds = {}, !.po = {}]

remove_all_deals(s, bot_id) ==
    [s EXCEPT !.dp = { r \in @ : r.botid # bot_id },
              !.ds = { r \in @ : r.botid # bot_id },
              !.po = { r \in @ : r.botid # bot_id }]

-----------------------------------------------------------------------------
(* Profit trailing.  A deal is the record the platform returns for one     *)
(* active deal; o holds the platform's answers to the remote calls issued  *)
(* while the deal is evaluated.                                            *)

\* a plausible slip: the deal status is taken for the close strategy
ConditionalByStatus(deal_data) == deal_data.status = "close_strategy_activated"

Conditional(deal_data) == Len(deal_data.close_strategy_list) > 0

\* readable stop-loss: base stop-loss of the tier plus activationDiff * factor;
\* returns <<current SL on the platform axis, new SL on the platform axis
\* (inverted), new SL on the take-profit axis>>
calculate_sl_percentage(deal_data, profit_config, activation_diff) ==
    LET readable == profit_config.initial_stoploss_percentage
                    + Scale(activation_diff, profit_config.sl_increment_factor)
    IN  << deal_data.stop_loss_percentage, 0 - readable, readable >>

\* returns <<current TP, new TP>>
calculate_tp_percentage(deal_data, profit_config, activation_diff, last_profit_percentage) ==
    << deal_data.take_profit,
       deal_data.take_profit + Scale(activation_diff, profit_config.tp_increment_factor) >>

\* the platform echoes the requested values ("ok"), echoes other values
\* ("mismatch") or answers with an error ("error")
update_deal_profit_ok(o) == o.update = "ok"

\* a plausible slip: any answer with data counts as an update
update_deal_profit_any_data(o) == o.update # "error"

update_deal_profit(o) == update_deal_profit_ok(o)

\* the update_deal request with the values of its payload
update_deal_request(s, new_stoploss, new_take_profit, sl_timeout) ==
    [Call(s, "update_deal") EXCEPT
        !.payload = Append(@, [stop_loss_percentage |-> new_stoploss,
                               take_profit |-> new_take_profit,
                               stop_loss_timeout_in_seconds |-> sl_timeout])]

\* a plausible slip: the take-profit of the deal is pushed at a reset
restored_take_profit_of_deal(bot_data, deal_data) == deal_data.take_profit

\* the take-profit pushed when trailing is reset
restored_take_profit(bot_data, deal_data) == bot_data.take_profit

close_threecommas_deal(o) == o.close

\* the debugging request of handle_deal_profit when profit is close to TP
NearTakeProfit(tp, currentprofitpercentage) == Abs(tp - currentprofitpercentage) <= 15

\* a plausible slip: the minimum profit of the deal is not looked at
above_min_profit_always(deal_data, current_profit_percentage) == TRUE

\* the deal may be closed at the current profit
above_min_profit(deal_data, current_profit_percentage) ==
    current_profit_percentage >= deal_data.min_profit_percentage

\* a plausible slip: below the minimum profit the stored stop is kept
evaluate_mp_stoploss_no_reset(s, deal_data, o, current_profit_percentage, last_readable_sl_percentage) ==
    IF current_profit_percentage <= last_readable_sl_percentage
       /\ above_min_profit(deal_data, current_profit_percentage)
    THEN Event(Call(s, "panic_sell"),
               IF close_threecommas_deal(o) THEN "deal_closed" ELSE "close_failed")
    ELSE s

evaluate_mp_stoploss(s, deal_data, o, current_profit_percentage, last_readable_sl_percentage) ==
    IF current_profit_percentage <= last_readable_sl_percentage
    THEN IF above_min_profit(deal_data, current_profit_percentage)
         THEN Event(Call(s, "panic_sell"),
                    IF close_threecommas_deal(o) THEN "deal_closed" ELSE "close_failed")
         ELSE Event(update_profit_in_db(s, deal_data.id, 0, 0, 0), "mp_reset")
    ELSE s

\* a plausible slip: the profit increase is persisted instead of the profit
NewProfitMarkDelta(currentprofitpercentage, lastprofitpercentage) ==
    currentprofitpercentage - lastprofitpercentage

\* the value persisted as trailing high-water mark by a successful update
NewProfitMark(currentprofitpercentage, lastprofitpercentage) == currentprofitpercentage

\* a plausible slip: an unchanged profit moves the trailing again
ProfitNotDecreased(currentprofitpercentage, lastprofitpercentage) ==
    currentprofitpercentage >= lastprofitpercentage

\* a plausible slip: any change of profit moves the trailing
ProfitChanged(currentprofitpercentage, lastprofitpercentage) ==
    currentprofitpercentage # lastprofitpercentage

\* trailing moves only when profit rose above the stored mark
ProfitIncreased(currentprofitpercentage, lastprofitpercentage) ==
    currentprofitpercentage > lastprofitpercentage

\* s is the state after the request that restores SL and TP was sent
reset_trailing(s, deal_data, o) ==
    IF update_deal_profit(o)
    THEN Event(update_profit_in_db(s, deal_data.id, 0, 0, 0), "profit_reset")
    ELSE Event(s, "update_failed")

\* the result is the pair <<state, requiremonitoring>>
handle_deal_profit(s, bot_data, deal_data, o, deal_db_data, profit_config) ==
    LET currentprofitpercentage == deal_data.actual_profit_percentage
        lastprofitpercentage == deal_db_data.last_profit_percentage
        lastreadableslpercentage == deal_db_data.last_readable_sl_percentage
    IN  IF profit_config # NoSettings
           /\ ProfitIncreased(currentprofitpercentage, lastprofitpercentage)
        THEN LET activationdiff == currentprofitpercentage - profit_config.activation_percentage
                 sldata == calculate_sl_percentage(deal_data, profit_config, activationdiff)
                 tpdata == calculate_tp_percentage(deal_data, profit_config, activationdiff,
                                                   lastprofitpercentage)
                 s1 == IF NearTakeProfit(tpdata[1], currentprofitpercentage)
                       THEN Call(s, "market_orders") ELSE s
                 s2 == IF Conditional(deal_data) THEN s1
                       ELSE update_deal_request(s1, sldata[2], tpdata[2],
                                                profit_config.sl_timeout)
                 dealupdated == Conditional(deal_data) \/ update_deal_profit(o)
                 s3 == IF dealupdated
                       THEN Event(update_profit_in_db(s2, deal_data.id,
                                      NewProfitMark(currentprofitpercentage, lastprofitpercentage),
                                      sldata[3], tpdata[2]),
                                  "profit_update")
                       ELSE Event(s2, "update_failed")
             IN  << s3, 1 >>
        ELSE LET s1 ==
                   IF Conditional(deal_data)
                   THEN evaluate_mp_stoploss(s, deal_data, o, currentprofitpercentage,
                                             lastreadableslpercentage)
                   ELSE IF profit_config = NoSettings
                           /\ deal_db_data.last_profit_percentage > bot_data.take_profit
                        THEN reset_trailing(
                                 update_deal_request(s, 0,
                                     restored_take_profit(bot_data, deal_data), 0),
                                 deal_data, o)
                        ELSE s
             IN  << s1, IF profit_config # NoSettings THEN 1 ELSE 0 >>

process_deal_for_profit(s, section_profit_cfg, bot_data, deal_data, o) ==
    IF ~ Conditional(deal_data)
       /\ deal_data.actual_profit_percentage >= deal_data.take_profit
    THEN << s, 0 >>
    ELSE LET dealdbdata == get_profit_db_data(s, deal_data.id)
             profitconfig == get_settings(section_profit_cfg,
                                          deal_data.actual_profit_percentage,
                                          deal_data.completed_safety_orders_count)
         IN  handle_deal_profit(s, bot_data, deal_data, o, dealdbdata, profitconfig)

-----------------------------------------------------------------------------
(* Platform order queries.  o.market_orders is the platform's answer to    *)
(* the market_orders request: a sequence of orders, empty when the request *)
(* failed.                                                                 *)

MarketOrder(order_id, order_type, status) ==
    [order_id |-> order_id, deal_order_type |-> order_type, status_string |-> status]

RECURSIVE order_status_from(_, _, _, _)
order_status_from(data, order_id, i, orderstatus) ==
    IF i > Len(data) THEN orderstatus
    ELSE IF data[i].order_id = order_id THEN data[i].status_string
    ELSE order_status_from(data, order_id, i + 1, data[i].status_string)

get_threecommas_deal_order_status(data, order_id) == order_status_from(data, order_id, 1, "")

RECURSIVE order_id_from(_, _, _, _, _)
order_id_from(data, order_type, order_status, i, orderid) ==
    IF i > Len(data) THEN orderid
    ELSE IF data[i].deal_order_type = order_type /\ data[i].status_string = order_status
         THEN data[i].order_id
    ELSE order_id_from(data, order_type, order_status, i + 1, data[i].order_id)

get_threecommas_deal_order_id(data, order_type, order_status) ==
    order_id_from(data, order_type, order_status, 1, "")

\* parameters of get_threecommas_deal_order_id: logger, api, deal_pair,
\* deal_id, order_type, order_status
order_id_lookup_params == 6

\* arguments handle_deal_safety passes: logger, api, deal id, type, status
order_id_lookup_args == 5

\* Python raises TypeError when a call does not supply every parameter
order_id_lookup_raises == order_id_lookup_args # order_id_lookup_params

threecommas_deal_cancel_order(o) == o.cancel = "cancelled"

threecommas_get_data_for_adding_funds(o) == o.limitdata

\* a plausible slip: any answer to add_funds counts as an order
threecommas_deal_add_funds_any(o) == TRUE

threecommas_deal_add_funds(o) == o.addfunds # "rejected"

-----------------------------------------------------------------------------
(* Safety-order trailing *)

Min(a, b) == IF a < b THEN a ELSE b

Max(a, b) == IF a > b THEN a ELSE b

\* total drop in hundredths of a percent:
\* round(fabs(current_price / base_order_average_price * 100 - 100), 2)
TotalProfit(deal_data) ==
    Abs(RoundDiv(deal_data.current_price * 10000, deal_data.base_order_average_price) - 10000)

\* Safety orders of the bot lie one step apart.  Returns <<number of
\* configured safety orders the manual trade fills, volume, price, total
\* drop of the current safety order, total drop of the next safety order>>.
calculate_safety_order(bot_data, deal_data, filled_so_count, current_profit_percentage) ==
    LET step == bot_data.safety_order_step_percentage
        reached == Min(current_profit_percentage \div step, deal_data.max_safety_orders)
        n == Max(0, reached - filled_so_count)
    IN  << n, n, deal_data.current_price, step * (filled_so_count + n),
           step * (filled_so_count + n + 1) >>

set_first_safety_order(s, bot_data, deal_data, filled_so_count, current_profit_percentage) ==
    LET sodata == calculate_safety_order(bot_data, deal_data, filled_so_count,
                                         current_profit_percentage)
    IN  update_safetyorder_monitor_in_db(
            update_safetyorder_in_db(s, deal_data.id, filled_so_count, sodata[5], 0),
            deal_data.id, 0, sodata[5])

\* one order fewer is active on the platform
OrderGone(s, deal_id) == [s EXCEPT !.ex[deal_id] = Max(0, @ - 1)]

OrderAdded(s, deal_id) == [s EXCEPT !.ex[deal_id] = @ + 1]

\* the filled-order path of evaluate_deal_orders: three updates, each with
\* its own commit; s.kill = k > 0 terminates the process after the k-th commit
order_filled(s, deal_data, deal_db_data, order_db_data) ==
    LET totalfilledso == deal_db_data.filled_so_count + order_db_data.number_of_so
        s1 == update_safetyorder_in_db(s, deal_data.id, totalfilledso,
                  order_db_data.next_so_percentage, order_db_data.shift_percentage)
        s2 == update_safetyorder_monitor_in_db(s1, deal_data.id, 0,
                  order_db_data.next_so_percentage)
    IN  IF s.kill = 1 THEN Killed(s1)
        ELSE IF s.kill = 2 THEN Killed(s2)
        ELSE Event(remove_pending_order_from_db(s2, deal_data.id, order_db_data.order_id),
                   "order_filled")

\* a plausible slip: the order is kept while the drop is below its level
order_kept_below(total_profit, order_db_data) ==
    total_profit < order_db_data.cancel_at_percentage

\* the pending order is left to fill: the drop is at or beyond its level
order_kept(total_profit, order_db_data) ==
    total_profit >= order_db_data.cancel_at_percentage

\* the result is <<state, requiremonitoring, refreshdealdbdata>>
evaluate_deal_orders(s, deal_data, o, deal_db_data, order_db_data, total_profit) ==
    IF order_db_data # NoOrder /\ order_db_data.order_id # ""
    THEN IF deal_data.active_manual_safety_orders > 0
         THEN IF order_kept(total_profit, order_db_data)
              THEN << s, 1, FALSE >>
              ELSE LET s1 == Call(s, "cancel_order")
                   IN  IF threecommas_deal_cancel_order(o)
                       THEN LET s2 == update_safetyorder_monitor_in_db(OrderGone(s1, deal_data.id),
                                          deal_data.id, 0, order_db_data.next_so_percentage)
                                s3 == remove_pending_order_from_db(s2, deal_data.id,
                                          order_db_data.order_id)
                            IN  << Event(s3, "order_cancelled"), 0, TRUE >>
                       ELSE LET s2 == Call(s1, "market_orders")
                                orderstatus == get_threecommas_deal_order_status(
                                                   o.market_orders, order_db_data.order_id)
                            IN  IF orderstatus = "filled"
                                THEN << order_filled(OrderGone(s2, deal_data.id), deal_data,
                                                     deal_db_data, order_db_data), 0, TRUE >>
                                ELSE << s2, 1, FALSE >>
         ELSE << order_filled(s, deal_data, deal_db_data, order_db_data), 0, TRUE >>
    ELSE << s, 0, FALSE >>

TrailingMoved(deal_db_data) ==
    \/ deal_db_data.last_profit_percentage # 0
    \/ deal_db_data.add_funds_percentage # deal_db_data.next_so_percentage

\* the add-funds threshold that follows the drop
NewAddFunds(deal_db_data, safety_config, current_profit_percentage) ==
    LET base == deal_db_data.next_so_percentage + safety_config.initial_buy_percentage
    IN  base + Scale(current_profit_percentage - base, safety_config.buy_increment_factor)

\* the steps of handle_deal_safety after a successful add_funds request
order_placed(s, bot_data, deal_data, o, deal_db_data, sodata) ==
    IF order_id_lookup_raises
    THEN Raise(s)
    ELSE LET s1 == Call(s, "market_orders")
             orderid == get_threecommas_deal_order_id(o.market_orders, "manual safety", "active")
             shiftpercentage == deal_db_data.shift_percentage
         IN  IF orderid # ""
             THEN Event(add_pending_order_in_db(s1, deal_data.id, bot_data.id, orderid,
                            sodata[4], sodata[1], sodata[5], shiftpercentage),
                        "order_created")
             ELSE LET totalfilledso == deal_db_data.filled_so_count + sodata[1]
                      s2 == update_safetyorder_in_db(s1, deal_data.id, totalfilledso,
                                                     sodata[5], shiftpercentage)
                  IN  Event(update_safetyorder_monitor_in_db(s2, deal_data.id, 0, sodata[5]),
                            "order_filled_immediately")

\* the add_funds request; the event notes an order still active on the platform
AddFundsCall(s, deal_id) ==
    IF s.ex[deal_id] > 0
    THEN Event(Call(s, "add_funds"), "add_funds_while_outstanding")
    ELSE Call(s, "add_funds")

\* a plausible slip: the threshold follows every new low of the deal
threshold_follows(newaddfundspercentage, currentaddfundspercentage) == TRUE

\* the add-funds threshold moves only away from zero
threshold_grows(newaddfundspercentage, currentaddfundspercentage) ==
    Abs(newaddfundspercentage) > Abs(currentaddfundspercentage)

\* a plausible slip: funds are added whenever the drop is not a new low
threshold_reached_always(current_profit_percentage, currentaddfundspercentage) == TRUE

\* the drop has come back to the add-funds threshold
threshold_reached(current_profit_percentage, currentaddfundspercentage) ==
    current_profit_percentage <= currentaddfundspercentage

\* the result is the pair <<state, requiremonitoring>>
handle_deal_safety(s, bot_data, deal_data, o, deal_db_data, safety_config, current_profit_percentage) ==
    LET currentaddfundspercentage == deal_db_data.add_funds_percentage
        lastprofitpercentage == deal_db_data.last_profit_percentage
    IN  IF current_profit_percentage > lastprofitpercentage
        THEN LET newaddfundspercentage ==
                     NewAddFunds(deal_db_data, safety_config, current_profit_percentage)
             IN  IF threshold_grows(newaddfundspercentage, currentaddfundspercentage)
                 THEN << Event(update_safetyorder_monitor_in_db(s, deal_data.id,
                                   current_profit_percentage, newaddfundspercentage),
                               "safety_update"), 1 >>
                 ELSE << s, 1 >>
        ELSE IF threshold_reached(current_profit_percentage, currentaddfundspercentage)
        THEN IF current_profit_percentage < deal_db_data.next_so_percentage
             THEN << Event(update_safetyorder_monitor_in_db(s, deal_data.id, 0,
                               deal_db_data.next_so_percentage), "safety_missed"), 0 >>
             ELSE LET sodata == calculate_safety_order(bot_data, deal_data,
                                    deal_db_data.filled_so_count, current_profit_percentage)
                      s1 == Call(s, "data_for_adding_funds")
                  IN  IF threecommas_get_data_for_adding_funds(o)
                      THEN LET s2 == AddFundsCall(s1, deal_data.id)
                           IN  IF threecommas_deal_add_funds(o)
                               THEN << order_placed(
                                          IF o.addfunds = "rests"
                                          THEN OrderAdded(s2, deal_data.id) ELSE s2,
                                          bot_data, deal_data, o, deal_db_data, sodata), 0 >>
                               ELSE << s2, 0 >>
                      ELSE << s1, 0 >>
        ELSE << s, 1 >>

\* a plausible slip: the reset is written whether or not trailing had moved
\* and clears the threshold
safety_reset_zero(s, deal_data, dealdbdata) ==
    Event(update_safetyorder_monitor_in_db(s, deal_data.id, 0, 0), "safety_reset")

\* the trailing reset of process_deal_for_safety_order
safety_reset(s, deal_data, dealdbdata) ==
    IF TrailingMoved(dealdbdata)
    THEN Event(update_safetyorder_monitor_in_db(s, deal_data.id, 0,
                                                dealdbdata.next_so_percentage),
               "safety_reset")
    ELSE s

\* a plausible slip: the exhaustion check is missing
safety_orders_never_exhausted(dealdbdata, deal_data) == FALSE

all_safety_orders_filled(dealdbdata, deal_data) ==
    dealdbdata.filled_so_count = deal_data.max_safety_orders

\* the tier decides: trail or place with a tier, reset without one
handle_or_reset(s, bot_data, deal_data, o, dealdbdata, safetyconfig, totalprofit) ==
    IF safetyconfig # NoSettings
    THEN handle_deal_safety(s, bot_data, deal_data, o, dealdbdata, safetyconfig, totalprofit)
    ELSE << safety_reset(s, deal_data, dealdbdata), 0 >>

\* Step 2: ordinary safety evaluation on the SafetyState dealdbdata
safety_step2(s, section_safety_cfg, bot_data, deal_data, o, dealdbdata, totalprofit) ==
    IF all_safety_orders_filled(dealdbdata, deal_data)
    THEN << s, 0 >>
    ELSE IF totalprofit - dealdbdata.next_so_percentage >= 0
         THEN handle_or_reset(s, bot_data, deal_data, o, dealdbdata,
                  get_settings(section_safety_cfg, totalprofit - dealdbdata.next_so_percentage,
                               dealdbdata.filled_so_count),
                  totalprofit)
         ELSE << safety_reset(s, deal_data, dealdbdata), 0 >>

\* Step 2 is entered with the SafetyState read before Step 1, or read again
\* when Step 1 resolved the pending order
enter_step2(s, section_safety_cfg, bot_data, deal_data, o, dealdbdata, totalprofit) ==
    safety_step2([s EXCEPT !.step2 = {dealdbdata}], section_safety_cfg, bot_data, deal_data, o,
                 dealdbdata, totalprofit)

\* result is what evaluate_deal_orders returned
after_deal_orders(result, section_safety_cfg, bot_data, deal_data, o, dealdbdata, totalprofit) ==
    IF result[1].raised
    THEN << result[1], 0 >>
    ELSE IF result[2] = 1
    THEN << result[1], 1 >>
    ELSE enter_step2(result[1], section_safety_cfg, bot_data, deal_data, o,
                     IF result[3] THEN get_safety_db_data(result[1], deal_data.id)
                     ELSE dealdbdata,
                     totalprofit)

process_deal_for_safety_order(s, section_safety_cfg, bot_data, deal_data, o) ==
    after_deal_orders(
        evaluate_deal_orders(s, deal_data, o, get_safety_db_data(s, deal_data.id),
                             get_pending_order_db_data(s, deal_data.id), TotalProfit(deal_data)),
        section_safety_cfg, bot_data, deal_data, o, get_safety_db_data(s, deal_data.id),
        TotalProfit(deal_data))

-----------------------------------------------------------------------------
(* process_deals: one evaluation of a bot.  inputs is the sequence of the  *)
(* bot's active deals, each paired with the platform's answers for it.     *)

\* first-sighting check of a deal's pricing data
is_valid_deal(bot_data, deal_data) == deal_data.valid

\* a plausible slip: the status of the deal is not looked at
EligibleAnyStatus(deal_data) ==
    /\ deal_data.strategy \in {"short", "long"}
    /\ deal_data.profit_ok

Eligible(deal_data) ==
    /\ deal_data.strategy \in {"short", "long"}
    /\ deal_data.profit_ok
    /\ deal_data.status \in {"bought", "close_strategy_activated"}

\* the rows of one deal
RowsOf(table, deal_id) == { r \in table : r.dealid = deal_id }

\* what one deal's evaluation saw and did
LogEntry(deal_data, o, engine, before, after, monitor) ==
    [deal |-> deal_data, o |-> o, engine |-> engine, step2 |-> after.step2,
     pre_p |-> RowsOf(before.dp, deal_data.id),
     pre_s |-> RowsOf(before.ds, deal_data.id),
     pre_po |-> RowsOf(before.po, deal_data.id),
     pre_ex |-> before.ex[deal_data.id],
     calls |-> after.calls, payload |-> after.payload, events |-> after.events,
     monitor |-> monitor, raised |-> after.raised]

\* the rows a first sighting creates
admit_deal(s, section_safety_cfg, bot_data, deal_data) ==
    IF is_new_deal(s, deal_data.id)
    THEN LET s1 == add_deal_in_db(s, deal_data.id, bot_data.id)
         IN  IF Len(section_safety_cfg) > 0
             THEN set_first_safety_order(s1, bot_data, deal_data, 0, 0)
             ELSE s1
    ELSE s

\* the calls and events recorded are those of the deal under evaluation
reset_trace(s) == [s EXCEPT !.calls = <<>>, !.payload = <<>>, !.events = {}, !.step2 = {}]

\* a deal that fails the checks is left out of currentdeals
skip_deal(acc, s, deal, o) ==
    [acc EXCEPT !.s = s, !.log = Append(@, LogEntry(deal, o, "skipped", s, s, 0))]

\* the engine chosen by the sign of the profit
engine_of(deal, section_profit_cfg, section_safety_cfg) ==
    IF deal.actual_profit_percentage > 0 /\ Len(section_profit_cfg) > 0
    THEN "profit"
    ELSE IF deal.actual_profit_percentage < 0 /\ Len(section_safety_cfg) > 0
    THEN "safety" ELSE "idle"

evaluate_deal(s, engine, section_profit_cfg, section_safety_cfg, bot_data, deal, o) ==
    IF engine = "profit"
    THEN process_deal_for_profit(s, section_profit_cfg, bot_data, deal, o)
    ELSE IF engine = "safety"
    THEN process_deal_for_safety_order(s, section_safety_cfg, bot_data, deal, o)
    ELSE << s, 0 >>

\* res is the pair <<state, requiremonitoring>> the engine returned
record_deal(acc, deal, o, engine, s, res) ==
    [s |-> res[1],
     currentdeals |-> Append(acc.currentdeals, deal.id),
     monitoreddeals |-> acc.monitoreddeals + res[2],
     log |-> Append(acc.log, LogEntry(deal, o, engine, s, res[1], res[2]))]

\* s is the store after the rows of a new deal were added
admitted_deal(acc, s, engine, section_profit_cfg, section_safety_cfg, bot_data, deal, o) ==
    record_deal(acc, deal, o, engine, s,
                evaluate_deal(s, engine, section_profit_cfg, section_safety_cfg,
                              bot_data, deal, o))

\* the body of the loop over the bot's active deals
one_deal(acc, s, section_profit_cfg, section_safety_cfg, bot_data, deal, o) ==
    IF ~ Eligible(deal)
    THEN skip_deal(acc, s, deal, o)
    ELSE IF is_new_deal(s, deal.id) /\ ~ is_valid_deal(bot_data, deal)
    THEN skip_deal(acc, s, deal, o)
    ELSE admitted_deal(acc, admit_deal(s, section_safety_cfg, bot_data, deal),
                       engine_of(deal, section_profit_cfg, section_safety_cfg),
                       section_profit_cfg, section_safety_cfg, bot_data, deal, o)

RECURSIVE process_deals_from(_, _, _, _, _, _)
process_deals_from(acc, section_profit_cfg, section_safety_cfg, bot_data, inputs, i) ==
    IF i > Len(inputs) \/ acc.s.raised THEN acc
    ELSE process_deals_from(
             one_deal(acc, reset_trace(acc.s), section_profit_cfg, section_safety_cfg,
                      bot_data, inputs[i].deal, inputs[i].o),
             section_profit_cfg, section_safety_cfg, bot_data, inputs, i + 1)

\* after the loop: rows of deals that are no longer current are removed
finish_deals(acc, bot_data) ==
    IF acc.s.raised THEN acc
    ELSE [acc EXCEPT !.s = remove_closed_deals(acc.s, bot_data.id, acc.currentdeals)]

process_deals(s, section_profit_cfg, section_safety_cfg, bot_data, inputs) ==
    IF inputs = <<>>
    THEN [s |-> remove_all_deals(s, bot_data.id), currentdeals |-> <<>>,
          monitoreddeals |-> 0, log |-> <<>>]
    ELSE finish_deals(
             process_deals_from(
                 [s |-> s, currentdeals |-> <<>>, monitoreddeals |-> 0, log |-> <<>>],
                 section_profit_cfg, section_safety_cfg, bot_data, inputs, 1),
             bot_data)

-----------------------------------------------------------------------------
(* The bot, its deals and the platform's answers *)

Bot == [id |-> 1, take_profit |-> 150, safety_order_step_percentage |-> 500]

DealIds == {1}

\* most active manual safety orders the platform holds for one deal
MaxOrders == 2

Deal(id, profit, conditional, price) ==
    [id |-> id, strategy |-> "long", profit_ok |-> TRUE, status |-> "bought",
     actual_profit_percentage |-> profit, completed_safety_orders_count |-> 0,
     take_profit |-> 400, stop_loss_percentage |-> 0,
     close_strategy_list |-> IF conditional THEN << "min_profit" >> ELSE << >>,
     min_profit_percentage |-> 150, max_safety_orders |-> 2,
     active_manual_safety_orders |-> 0,
     current_price |-> price, base_order_average_price |-> 10000, valid |-> TRUE]

Answers(update, close, cancel, market_orders, limitdata, addfunds) ==
    [update |-> update, close |-> close, cancel |-> cancel,
     market_orders |-> market_orders, limitdata |-> limitdata, addfunds |-> addfunds]

BaseOrder == MarketOrder("b0", "base", "filled")

MarketOrderAnswers ==
    { << >>,
      << BaseOrder, MarketOrder("o1", "manual safety", "active") >>,
      << BaseOrder, MarketOrder("o1", "manual safety", "filled") >> }

ProfitPcts == {100, 200, 250, 300, 350, 400}

\* prices of a deal in drawdown: drops of 4.9, 5.2, 5.5, 6, 11 and 16 percent
DrawdownPrices == {9510, 9480, 9450, 9400, 8900, 8400}

\* a simple-take-profit deal is answered on update_deal, a conditional-close
\* deal on panic_sell: the profit engine issues no other request that decides
ProfitAnswers(conditional) ==
    IF conditional
    THEN { Answers("error", cl, "failed", << >>, FALSE, "rejected") : cl \in BOOLEAN }
    ELSE { Answers(u, FALSE, "failed", << >>, FALSE, "rejected") :
           u \in {"ok", "error", "mismatch"} }

ProfitInputs ==
    UNION { { [deal |-> Deal(1, p, c, 10100), o |-> a] : a \in ProfitAnswers(c) } :
            p \in ProfitPcts, c \in BOOLEAN }

\* answers to the resolution of a pending order (cancel_order, market_orders)
CancelAnswers ==
    { Answers("error", FALSE, "cancelled", << >>, FALSE, "rejected") } \cup
    { Answers("error", FALSE, "failed", m, FALSE, "rejected") : m \in MarketOrderAnswers }

\* answers to a placement (data_for_adding_funds, add_funds)
PlaceAnswers ==
    { Answers("error", FALSE, "failed", << >>, FALSE, "rejected") } \cup
    { Answers("error", FALSE, "failed", << >>, TRUE, a) : a \in {"rests", "filled", "rejected"} }

SafetyInputs ==
    { [deal |-> Deal(1, -100, FALSE, pr), o |-> a] :
      pr \in DrawdownPrices, a \in CancelAnswers \cup PlaceAnswers }

\* the ways a listed deal fails the checks of process_deals
DealVariants == {"eligible", "strategy", "profit", "status", "invalid"}

DealVariant(deal, variant) ==
    CASE variant = "strategy" -> [deal EXCEPT !.strategy = "unknown"]
      [] variant = "profit"   -> [deal EXCEPT !.profit_ok = FALSE]
      [] variant = "status"   -> [deal EXCEPT !.status = "created"]
      [] variant = "invalid"  -> [deal EXCEPT !.valid = FALSE]
      [] OTHER                -> deal

\* the platform accepts every update
AcceptingAnswers == Answers("ok", FALSE, "failed", << >>, FALSE, "rejected")

\* a deal above its entry price, with or without a matching profit tier
ListedDeals(id) ==
    { [deal |-> DealVariant(Deal(id, 250, FALSE, 10100), v), o |-> AcceptingAnswers] :
      v \in DealVariants }
    \cup { [deal |-> Deal(id, 100, FALSE, 10100), o |-> AcceptingAnswers] }

\* the deal lists of a bot that has up to two active deals
HousekeepingLists ==
    { << >> } \cup { << a >> : a \in ListedDeals(1) \cup ListedDeals(2) }
             \cup { << a, b >> : a \in ListedDeals(1), b \in ListedDeals(2) }

-----------------------------------------------------------------------------
(* Actions *)

NoLast ==
    [log |-> << >>, monitoreddeals |-> 0, raised |-> FALSE, evaluated |-> FALSE,
     listed |-> << >>, calls |-> << >>, others |-> {}, had_rows |-> FALSE]

NoSel == [table |-> << >>, profit |-> 0, so |-> 0, done |-> FALSE, result |-> NoSettings]

\* the evaluation of the same deal in the previous cycle, if any
Previous(entry) ==
    { e \in { last.log[k] : k \in 1..Len(last.log) } :
        e.deal = entry.deal /\ e.engine = entry.engine }

\* SafetyState and PendingOrder of the deal as they were before the previous
\* cycle, when that cycle was terminated in the filled-order path
KilledBefore(entry) ==
    { [safety |-> e.pre_s, order |-> e.pre_po] :
      e \in { x \in { last.log[k] : k \in 1..Len(last.log) } :
                 x.deal.id = entry.deal.id /\ "killed" \in x.events } }

Annotate(entry) ==
    LET prev == Previous(entry)
        e0 == CHOOSE e \in prev : TRUE
    IN  [deal |-> entry.deal, o |-> entry.o, engine |-> entry.engine,
         step2 |-> entry.step2,
         pre_p |-> entry.pre_p, pre_s |-> entry.pre_s, pre_po |-> entry.pre_po,
         pre_ex |-> entry.pre_ex, calls |-> entry.calls, payload |-> entry.payload,
         events |-> entry.events,
         monitor |-> entry.monitor, raised |-> entry.raised,
         repeat |-> prev # {},
         prev_calls |-> IF prev # {} THEN e0.calls ELSE << >>,
         prev_events |-> IF prev # {} THEN e0.events ELSE {},
         prev_raised |-> IF prev # {} THEN e0.raised ELSE FALSE,
         after_kill |-> KilledBefore(entry)]

\* a deal that left the bot's active deals is closed: the platform holds no
\* order of it any more
OrdersOfActiveDeals(choice) ==
    [d \in DOMAIN orders |-> IF \E k \in 1..Len(choice) : choice[k].deal.id = d
                             THEN orders[d] ELSE 0]

\* the deals as the platform reports them, with their active order count
ActiveDeals(choice) ==
    [k \in 1..Len(choice) |->
        [choice[k] EXCEPT !.deal.active_manual_safety_orders = orders[choice[k].deal.id]]]

\* the store as one evaluation of the bot finds it; kill is the commit of the
\* filled-order path after which the process is terminated (0: it is not)
StoreState(choice, kill) ==
    [dp |-> deal_profit, ds |-> deal_safety, po |-> pending_orders,
     ex |-> OrdersOfActiveDeals(choice), calls |-> << >>, payload |-> << >>,
     events |-> {}, step2 |-> {},
     raised |-> FALSE, kill |-> kill]

\* the rows of the three tables that belong to other bots
RowsOfOtherBots(dp, ds, po, bot_id) ==
    { r \in dp \cup ds \cup po : r.botid # bot_id }

\* r is the result of process_deals; an exception ends the process (sys.exit)
Commit(r) ==
    /\ deal_profit' = r.s.dp
    /\ deal_safety' = r.s.ds
    /\ pending_orders' = r.s.po
    /\ orders' = r.s.ex
    /\ running' = ~ r.s.raised
    /\ last' = [log |-> [k \in 1..Len(r.log) |-> Annotate(r.log[k])],
                monitoreddeals |-> r.monitoreddeals,
                raised |-> r.s.raised,
                evaluated |-> TRUE,
                listed |-> [k \in 1..Len(r.log) |-> r.log[k].deal.id],
                calls |-> r.s.calls,
                others |-> RowsOfOtherBots(deal_profit, deal_safety, pending_orders, Bot.id),
                had_rows |-> \E row \in deal_profit \cup deal_safety \cup pending_orders :
                                row.botid = Bot.id]

\* one evaluation of the bot; Lists are the deal lists the platform may report
EvaluateBot(Lists, kill) ==
    /\ running
    /\ \E choice \in Lists :
         /\ \A k \in 1..Len(choice) :
                choice[k].o.addfunds = "rests" => orders[choice[k].deal.id] < MaxOrders
         /\ \E r \in { process_deals(StoreState(choice, kill), section_profit_config,
                                      section_safety_config, Bot, ActiveDeals(choice)) } :
                Commit(r)
    /\ UNCHANGED <<section_profit_config, section_safety_config, sel, sched>>

ProcessDealLists(Lists) == EvaluateBot(Lists, 0)

\* one evaluation of a bot that has at most one active deal
ProcessDeals(Inputs) == ProcessDealLists({ << >> } \cup { << i >> : i \in Inputs })

ProcessProfitDeals == ProcessDeals(ProfitInputs)

ProcessListedDeals == ProcessDealLists(HousekeepingLists)

ProcessSafetyDeals == ProcessDeals(SafetyInputs)

\* one evaluation of a bot whose deal stays in its list of active deals
ProcessActiveDeal(Inputs) == ProcessDealLists({ << i >> : i \in Inputs })

\* a deal in drawdown short of or beyond the cancel-at level of its order;
\* the platform cancels the order or refuses to
WaitingInputs ==
    { [deal |-> Deal(1, -100, FALSE, pr), o |-> a] :
      pr \in {9510, 9400},
      a \in { Answers("error", FALSE, "cancelled", << >>, FALSE, "rejected"),
              Answers("error", FALSE, "failed",
                      << BaseOrder, MarketOrder("o1", "manual safety", "active") >>,
                      FALSE, "rejected") } }

\* the same deal back in profit
RecoveredInputs ==
    { [deal |-> Deal(1, p, FALSE, 10100), o |-> AcceptingAnswers] : p \in {100, 250} }

\* the deal is in drawdown
ProcessDealInDrawdown == ProcessActiveDeal(WaitingInputs)

\* the deal is in profit
ProcessDealInProfit == ProcessActiveDeal(RecoveredInputs)

\* terminations are explored while the stored fill count is below this
MaxFilled == 3

\* an evaluation during which the process is terminated between two commits
\* of the filled-order path
KilledWhileFilling ==
    /\ \A r \in deal_safety : r.filled_so_count < MaxFilled
    /\ \E kill \in 1..2 : EvaluateBot({ << i >> : i \in SafetyInputs }, kill)
    /\ \E e \in { last'.log[k] : k \in 1..Len(last'.log) } : "killed" \in e.events

\* the platform fills an active manual safety order
OrderFills ==
    /\ \E d \in DealIds :
         /\ orders[d] > 0
         /\ orders' = [orders EXCEPT ![d] = @ - 1]
    /\ UNCHANGED <<deal_profit, deal_safety, pending_orders, running,
                   section_profit_config, section_safety_config, last, sel, sched>>

\* the poller is started again on the database it left
Restart ==
    /\ ~ running
    /\ running' = TRUE
    /\ UNCHANGED <<deal_profit, deal_safety, pending_orders, orders,
                   section_profit_config, section_safety_config, last, sel, sched>>

-----------------------------------------------------------------------------
(* The main loop: at each wake-up the bots of every tsl_tp_ section are    *)
(* looked at in configuration order.  A text is the sequence of its        *)
(* characters.                                                             *)

\* "check-interval" and "monitor-interval" of the settings, in seconds
CheckInterval == 120

MonitorInterval == 60

\* the wake-ups explored start before this time
MaxTime == 360

ModeMerge == << "m", "e", "r", "g", "e" >>

ModeMergeCapital == << "M", "e", "r", "g", "e" >>

ModeShift == << "s", "h", "i", "f", "t" >>

ModeEmpty == << >>

\* str.lower() on the letters that occur
LowerChar(c) ==
    CASE c = "M" -> "m" [] c = "E" -> "e" [] c = "R" -> "r" [] c = "G" -> "g"
      [] c = "S" -> "s" [] c = "H" -> "h" [] c = "I" -> "i" [] c = "F" -> "f"
      [] c = "T" -> "t" [] OTHER -> c

lower(text) == [i \in 1..Len(text) |-> LowerChar(text[i])]

\* Python's "part in text" on two strings: part occurs in text
contains(text, part) ==
    \E i \in 0..(Len(text) - Len(part)) : SubSeq(text, i + 1, i + Len(part)) = part

\* sectionsafetymode.lower() not in ("merge"): the right-hand side is a
\* string, not a tuple
safety_mode_rejected(mode) == ~ contains(ModeMerge, lower(mode))

\* botids of the two sections of the configuration
Sections == << << 1 >>, << 2 >> >>

\* a configuration that lists bot 1 in both of its bot groups
SharedSections == << << 1, 2 >>, << 1 >> >>

BotIds == {1, 2}

\* the intervals of the settings as load_config writes them
DefaultIntervals == [check |-> CheckInterval, monitor |-> MonitorInterval]

\* settings with a monitor-interval longer than the check-interval
LongMonitorIntervals == [check |-> MonitorInterval, monitor |-> CheckInterval]

RECURSIVE jobs_from(_, _, _)
jobs_from(botids, section, k) ==
    IF section > Len(botids) THEN << >>
    ELSE IF k > Len(botids[section]) THEN jobs_from(botids, section + 1, 1)
    ELSE << [section |-> section, bot |-> botids[section][k]] >>
             \o jobs_from(botids, section, k + 1)

\* the bots in the order the loop visits them
Jobs == jobs_from(section_botids, 1, 1)

BotData(bot) == [Bot EXCEPT !.id = bot]

HasBotRow(table, bot) == \E r \in table : r.botid = bot

\* the stored timestamp of the bot; the present time for a bot without a row
get_next_process_time(table, bot, nowtime) ==
    IF HasBotRow(table, bot)
    THEN (CHOOSE r \in table : r.botid = bot).next_processing_timestamp
    ELSE nowtime

\* the row of a bot is created when it is first asked for
with_bot_row(table, bot, nowtime) ==
    IF HasBotRow(table, bot) THEN table
    ELSE table \cup { [botid |-> bot, next_processing_timestamp |-> nowtime] }

set_next_process_time(table, bot, newtime) ==
    { r \in table : r.botid # bot }
        \cup { [botid |-> bot, next_processing_timestamp |-> newtime] }

\* a plausible slip: only a timestamp that has passed makes a bot due
bot_is_due_passed(starttime, nextprocesstime, checkinterval) ==
    starttime >= nextprocesstime

bot_is_due(starttime, nextprocesstime, checkinterval) ==
    \/ starttime >= nextprocesstime
    \/ Abs(nextprocesstime - starttime) > checkinterval

\* a plausible slip: the two intervals are exchanged
new_process_time_swapped(starttime, bot_deals_to_monitor, checkinterval, monitorinterval) ==
    starttime + (IF bot_deals_to_monitor = 0 THEN monitorinterval ELSE checkinterval)

new_process_time(starttime, bot_deals_to_monitor, checkinterval, monitorinterval) ==
    starttime + (IF bot_deals_to_monitor = 0 THEN checkinterval ELSE monitorinterval)

\* what the loop did for one bot; before and after are the accumulated
\* state around it
WakeEntry(job, starttime, mode, nextprocesstime, outcome, monitored, before, after) ==
    [section |-> job.section, bot |-> job.bot, starttime |-> starttime, mode |-> mode,
     nextprocesstime |-> nextprocesstime, outcome |-> outcome, monitored |-> monitored,
     bots_before |-> before.bots, bots_after |-> after.bots,
     rows_before |-> before.s.dp \cup before.s.ds \cup before.s.po,
     rows_after |-> after.s.dp \cup after.s.ds \cup after.s.po]

\* the bot is left alone: its section is skipped, or it is not due
bot_passed(acc, job, starttime, mode, nextprocesstime, outcome, after) ==
    [after EXCEPT !.log = Append(@, WakeEntry(job, starttime, mode, nextprocesstime,
                                              outcome, after.monitored, acc, after))]

\* a plausible slip: the timestamp is written before the evaluation
bot_evaluated_stamped(acc, with_row, job, starttime, mode, nextprocesstime, r) ==
    bot_passed(acc, job, starttime, mode, nextprocesstime,
               IF r.s.raised THEN "raised" ELSE "evaluated",
               [with_row EXCEPT
                   !.s = r.s,
                   !.bots = set_next_process_time(@, job.bot,
                                new_process_time(starttime, r.monitoreddeals,
                                                 intervals.check, intervals.monitor)),
                   !.deals_to_monitor = @ + r.monitoreddeals,
                   !.monitored = r.monitoreddeals])

\* r is the result of process_deals for the bot
bot_evaluated(acc, with_row, job, starttime, mode, nextprocesstime, r) ==
    IF r.s.raised
    THEN bot_passed(acc, job, starttime, mode, nextprocesstime, "raised",
                    [with_row EXCEPT !.s = r.s])
    ELSE bot_passed(acc, job, starttime, mode, nextprocesstime, "evaluated",
             [with_row EXCEPT
                 !.s = r.s,
                 !.bots = set_next_process_time(@, job.bot,
                              new_process_time(starttime, r.monitoreddeals,
                                               intervals.check, intervals.monitor)),
                 !.deals_to_monitor = @ + r.monitoreddeals,
                 !.monitored = r.monitoreddeals])

\* a plausible slip: a failed fetch postpones the bot like an evaluation
bot_looked_up_postponed(acc, with_row, job, input, starttime, mode, nextprocesstime, cfgP, cfgS) ==
    IF ~ bot_is_due(starttime, nextprocesstime, intervals.check)
    THEN bot_passed(acc, job, starttime, mode, nextprocesstime, "not_due", with_row)
    ELSE IF input.fetch # "ok"
    THEN bot_passed(acc, job, starttime, mode, nextprocesstime, "fetch_failed",
                    [with_row EXCEPT !.bots = set_next_process_time(@, job.bot,
                                                  starttime + intervals.check)])
    ELSE bot_evaluated(acc, with_row, job, starttime, mode, nextprocesstime,
             process_deals(reset_trace(with_row.s), cfgP, cfgS, BotData(job.bot),
                           input.deals))

\* with_row is the accumulated state once the bot's row exists
bot_looked_up(acc, with_row, job, input, starttime, mode, nextprocesstime, cfgP, cfgS) ==
    IF ~ bot_is_due(starttime, nextprocesstime, intervals.check)
    THEN bot_passed(acc, job, starttime, mode, nextprocesstime, "not_due", with_row)
    ELSE IF input.fetch # "ok"
    THEN bot_passed(acc, job, starttime, mode, nextprocesstime, "fetch_failed", with_row)
    ELSE bot_evaluated(acc, with_row, job, starttime, mode, nextprocesstime,
             process_deals(reset_trace(with_row.s), cfgP, cfgS, BotData(job.bot),
                           input.deals))

\* the body of the loops over the sections and their bots
one_bot(acc, job, input, starttime, mode, cfgP, cfgS) ==
    IF safety_mode_rejected(mode)
    THEN bot_passed(acc, job, starttime, mode, 0, "section_skipped", acc)
    ELSE bot_looked_up(acc, [acc EXCEPT !.bots = with_bot_row(@, job.bot, starttime)],
                       job, input, starttime, mode,
                       get_next_process_time(acc.bots, job.bot, starttime), cfgP, cfgS)

RECURSIVE wake_from(_, _, _, _, _, _, _)
wake_from(acc, inputs, starttime, modes, cfgP, cfgS, i) ==
    IF i > Len(Jobs) \/ acc.s.raised THEN acc
    ELSE wake_from(one_bot([acc EXCEPT !.monitored = 0], Jobs[i], inputs[Jobs[i].bot],
                           starttime, modes[Jobs[i].section], cfgP, cfgS),
                   inputs, starttime, modes, cfgP, cfgS, i + 1)

\* the platform's answer to "bots show" for one bot: an error, or the bot
\* with its active deals; the bot's deal carries the bot's id
BotAnswers(bot) ==
    { [fetch |-> "error", deals |-> << >>], [fetch |-> "ok", deals |-> << >>] }
    \cup { [fetch |-> "ok", deals |-> << [deal |-> Deal(bot, p, FALSE, 10100),
                                          o |-> AcceptingAnswers] >>] : p \in {100, 250} }

\* acc is the accumulated state after the loops; the loop then sleeps, unless
\* an exception has ended the process
FinishWake(acc) ==
    /\ deal_profit' = acc.s.dp
    /\ deal_safety' = acc.s.ds
    /\ pending_orders' = acc.s.po
    /\ orders' = acc.s.ex
    /\ running' = ~ acc.s.raised
    /\ bots' = acc.bots
    /\ wake' = [woke |-> TRUE, log |-> acc.log, deals_to_monitor |-> acc.deals_to_monitor]
    /\ now' = IF acc.s.raised THEN now
              ELSE now + (IF acc.deals_to_monitor = 0 THEN intervals.check
                          ELSE intervals.monitor)

\* the platform answers every bot as in BotAnswers
BotInputs ==
    { inputs \in [BotIds -> UNION { BotAnswers(b) : b \in BotIds }] :
        \A b \in BotIds : inputs[b] \in BotAnswers(b) }

\* one pass of the main loop; Inputs are the answers the platform may give
\* to the "bots show" requests of the pass
WakeOn(Inputs) ==
    /\ running
    /\ now < MaxTime
    /\ \E inputs \in Inputs :
         /\ FinishWake(wake_from([s |-> StoreState(<< >>, 0), bots |-> bots, log |-> << >>,
                                   deals_to_monitor |-> 0, monitored |-> 0],
                                  inputs, now, safety_modes, section_profit_config,
                                  section_safety_config, 1))
    /\ UNCHANGED <<section_profit_config, section_safety_config, last, sel, safety_modes,
                   section_botids, intervals>>

WakeUp == WakeOn(BotInputs)

\* the platform places the averaging order it is asked for
PlacingAnswers == Answers("ok", FALSE, "failed", << >>, TRUE, "rests")

\* prices of a deal in drawdown: drops of 16 and of 6 percent
AveragingPrices == {8400, 9400}

\* the platform's answer to "bots show" for one bot: an error, or the bot
\* with one deal that is in profit or in drawdown
AveragingAnswers(bot) ==
    { [fetch |-> "error", deals |-> << >>],
      [fetch |-> "ok", deals |-> << [deal |-> Deal(bot, 250, FALSE, 10100),
                                     o |-> AcceptingAnswers] >>] }
    \cup { [fetch |-> "ok", deals |-> << [deal |-> Deal(bot, -100, FALSE, pr),
                                          o |-> PlacingAnswers] >>] :
           pr \in AveragingPrices }

AveragingInputs ==
    { inputs \in [BotIds -> UNION { AveragingAnswers(b) : b \in BotIds }] :
        \A b \in BotIds : inputs[b] \in AveragingAnswers(b) }

\* one pass of the main loop over bots whose deals may be in drawdown
WakeUpAveraging == WakeOn(AveragingInputs)

\* the clock of the machine is set back
ClockSetBack ==
    /\ now >= 2 * intervals.check
    /\ now' = now - 2 * intervals.check
    /\ UNCHANGED <<deal_profit, deal_safety, pending_orders, orders, running,
                   section_profit_config, section_safety_config, last, sel,
                   bots, safety_modes, section_botids, intervals, wake>>

\* a lookup in a threshold table
Select ==
    /\ ~ sel.done
    /\ sel' = [sel EXCEPT !.done = TRUE,
                          !.result = get_settings(sel.table, sel.profit, sel.so)]
    /\ UNCHANGED <<deal_profit, deal_safety, pending_orders, orders, running,
                   section_profit_config, section_safety_config, last, sched>>

-----------------------------------------------------------------------------
(* Specifications *)

NoWake == [woke |-> FALSE, log |-> << >>, deals_to_monitor |-> 0]

\* the scheduler at rest
NoSchedule ==
    /\ now = 0
    /\ bots = {}
    /\ safety_modes = << >>
    /\ section_botids = << >>
    /\ intervals = DefaultIntervals
    /\ wake = NoWake

EmptyStore ==
    /\ deal_profit = {}
    /\ deal_safety = {}
    /\ pending_orders = {}
    /\ orders = [d \in DealIds |-> 0]

\* profit trailing of one deal, from a new database
InitProfit ==
    /\ EmptyStore
    /\ running = TRUE
    /\ section_profit_config \in ProfitConfigs
    /\ section_safety_config = DefaultSafetyConfig
    /\ last = NoLast
    /\ sel = NoSel
    /\ NoSchedule

NextProfit == ProcessProfitDeals

SpecProfit == InitProfit /\ [][NextProfit]_vars

\* A database left by an earlier run: a deal whose averaging order for its
\* next safety order is pending; filled counts the safety orders filled so far.
PendingStore(filled) ==
    LET nso == Bot.safety_order_step_percentage * (filled + 1)
    IN  /\ deal_profit = { ProfitRow(1, Bot.id, 0, 0, 0) }
        /\ deal_safety = { SafetyRow(1, Bot.id, nso + 100, nso + 50, nso, filled, 0) }
        /\ pending_orders \in
             { t \in SUBSET { PendingRow(1, Bot.id, "o1", nso, 1,
                                         nso + Bot.safety_order_step_percentage, 0),
                              PendingRow(1, Bot.id, "o2", nso, 1,
                                         nso + Bot.safety_order_step_percentage, 0) } :
                 t # {} /\ pending_orders_schema(t) }
        /\ orders \in [DealIds -> 0..1]

InitSafety ==
    /\ EmptyStore \/ PendingStore(0) \/ PendingStore(1)
    /\ running = TRUE
    /\ section_profit_config = DefaultProfitConfig
    /\ section_safety_config \in SafetyConfigs
    /\ last = NoLast
    /\ sel = NoSel
    /\ NoSchedule

NextSafety == ProcessSafetyDeals \/ OrderFills \/ Restart

SpecSafety == InitSafety /\ [][NextSafety]_vars

\* the rows of a deal of another bot
OtherBotProfit == { ProfitRow(3, 2, 0, 0, 0) }

OtherBotSafety == { SafetyRow(3, 2, 0, 500, 500, 0, 0) }

OtherBotPending == { PendingRow(3, 2, "o9", 500, 1, 1000, 0) }

\* A database that holds the rows of another bot's deal and, of this bot,
\* either nothing or a deal with a pending order.
InitHousekeeping ==
    /\ \/ /\ deal_profit = OtherBotProfit
          /\ deal_safety = OtherBotSafety
          /\ pending_orders = OtherBotPending
       \/ /\ deal_profit = OtherBotProfit \cup { ProfitRow(1, Bot.id, 0, 0, 0) }
          /\ deal_safety = OtherBotSafety \cup { SafetyRow(1, Bot.id, 600, 550, 500, 0, 0) }
          /\ pending_orders = OtherBotPending \cup { PendingRow(1, Bot.id, "o1", 500, 1, 1000, 0) }
    /\ orders = [d \in {1, 2} |-> 0]
    /\ running = TRUE
    /\ section_profit_config = DefaultProfitConfig
    /\ section_safety_config = DefaultSafetyConfig
    /\ last = NoLast
    /\ sel = NoSel
    /\ NoSchedule

NextHousekeeping == ProcessListedDeals

SpecHousekeeping == InitHousekeeping /\ [][NextHousekeeping]_vars

\* safety-order trailing with process terminations in the filled-order path
InitCrash ==
    /\ PendingStore(0) \/ PendingStore(1)
    /\ running = TRUE
    /\ section_profit_config = DefaultProfitConfig
    /\ section_safety_config = DefaultSafetyConfig
    /\ last = NoLast
    /\ sel = NoSel
    /\ NoSchedule

NextCrash == ProcessSafetyDeals \/ OrderFills \/ Restart \/ KilledWhileFilling

SpecCrash == InitCrash /\ [][NextCrash]_vars

\* the scheduler over two sections of one bot each, from a new database
InitMain ==
    /\ deal_profit = {}
    /\ deal_safety = {}
    /\ pending_orders = {}
    /\ orders = [d \in BotIds |-> 0]
    /\ running = TRUE
    /\ section_profit_config = DefaultProfitConfig
    /\ section_safety_config = DefaultSafetyConfig
    /\ last = NoLast
    /\ sel = NoSel
    /\ now = 0
    /\ bots = {}
    /\ safety_modes \in { << ModeMerge, ModeMerge >>, << ModeMergeCapital, ModeMerge >>,
                          << ModeMerge, ModeShift >>, << ModeShift, ModeMerge >>,
                          << ModeEmpty, ModeMerge >> }
    /\ section_botids = Sections
    /\ intervals = DefaultIntervals
    /\ wake = NoWake

NextMain == WakeUp \/ ClockSetBack

SpecMain == InitMain /\ [][NextMain]_vars

\* A deal with a pending averaging order that stays in the bot's list of
\* active deals, in drawdown or in profit.  The main loop evaluates the bot
\* again and again and the platform fills an order that rests.
InitResolve ==
    /\ PendingStore(0) \/ PendingStore(1)
    /\ running = TRUE
    /\ section_profit_config = DefaultProfitConfig
    /\ section_safety_config = DefaultSafetyConfig
    /\ last = NoLast
    /\ sel = NoSel
    /\ NoSchedule

NextResolve == ProcessDealInProfit \/ ProcessDealInDrawdown \/ OrderFills

SpecResolve ==
    /\ InitResolve
    /\ [][NextResolve]_vars
    /\ WF_vars(ProcessDealInProfit \/ ProcessDealInDrawdown)
    /\ WF_vars(OrderFills)

\* the same deal when it stays in drawdown
SpecResolveInDrawdown ==
    /\ InitResolve
    /\ [][ProcessDealInDrawdown \/ OrderFills]_vars
    /\ WF_vars(ProcessDealInDrawdown)
    /\ WF_vars(OrderFills)

\* the scheduler over two bot groups; bot 1 may be listed in both, and the
\* monitor-interval may be the longer of the two intervals
InitGroups ==
    /\ deal_profit = {}
    /\ deal_safety = {}
    /\ pending_orders = {}
    /\ orders = [d \in BotIds |-> 0]
    /\ running = TRUE
    /\ section_profit_config = DefaultProfitConfig
    /\ section_safety_config = DefaultSafetyConfig
    /\ last = NoLast
    /\ sel = NoSel
    /\ now = 0
    /\ bots = {}
    /\ safety_modes = << ModeMerge, ModeMerge >>
    /\ section_botids \in { Sections, SharedSections }
    /\ intervals \in { DefaultIntervals, LongMonitorIntervals }
    /\ wake = NoWake

NextGroups == WakeUpAveraging \/ Restart

SpecGroups == InitGroups /\ [][NextGroups]_vars

LookupTables ==
    { << >>, ScenarioProfitConfig, DefaultProfitConfig, TieBreakProfitConfig,
      UnorderedProfitConfig, DefaultSafetyConfig }

LookupProfits == {-10, 0, 25, 199, 200, 300, 350}

LookupSoCounts == {0, 1, 2}

InitSelect ==
    /\ EmptyStore
    /\ running = TRUE
    /\ section_profit_config = DefaultProfitConfig
    /\ section_safety_config = DefaultSafetyConfig
    /\ last = NoLast
    /\ sel \in [table : LookupTables, profit : LookupProfits, so : LookupSoCounts,
                done : {FALSE}, result : {NoSettings}]
    /\ NoSchedule

NextSelect == Select

SpecSelect == InitSelect /\ [][NextSelect]_vars

-----------------------------------------------------------------------------
(* Properties.  They read the record of the latest evaluation cycle (last) *)
(* against the tables as that cycle left them.                             *)

Entries == { last.log[k] : k \in 1..Len(last.log) }

TheRow(rows) == CHOOSE r \in rows : TRUE

Called(e, name) == \E k \in 1..Len(e.calls) : e.calls[k] = name

CountCalls(e, name) == Cardinality({ k \in 1..Len(e.calls) : e.calls[k] = name })

PostProfit(e) == TheRow(RowsOf(deal_profit, e.deal.id))

PreProfit(e) == TheRow(e.pre_p)

ProfitReset(e) == e.events \cap {"profit_reset", "mp_reset"} # {}

\* C1: in every reachable state of the store each deal id has at most one
\* PendingOrder row
C1_AtMostOnePendingOrder ==
    \A d \in DealIds : Cardinality(RowsOf(pending_orders, d)) <= 1

\* a cycle evaluated a deal whose pending order stays outstanding
C1_Witness ==
    \E e \in Entries :
        /\ e.engine = "safety"
        /\ e.pre_po # {}
        /\ RowsOf(pending_orders, e.deal.id) # {}

\* C2: add_funds is never requested for a deal while an averaging order the
\* engine placed earlier for it is still active on the platform
C2_NoOrderWhileOutstanding ==
    \A e \in Entries : "add_funds_while_outstanding" \notin e.events

\* C3: with filled_so_count = max_safety_orders on entry to ordinary safety
\* evaluation, add_funds is not requested and the deal is not monitored
C3_ExhaustedNeverOrders ==
    \A e \in Entries :
        ( /\ e.engine = "safety"
          /\ e.step2 # {}
          /\ TheRow(e.step2).filled_so_count = e.deal.max_safety_orders )
        => ( ~ Called(e, "add_funds") /\ e.monitor = 0 )

\* an exhausted deal evaluated at a drop beyond its next safety-order level,
\* where a safety tier matches
C3_Witness ==
    \E e \in Entries :
        /\ e.engine = "safety"
        /\ e.step2 # {}
        /\ TheRow(e.step2).filled_so_count = e.deal.max_safety_orders
        /\ get_settings_from(section_safety_config,
               TotalProfit(e.deal) - TheRow(e.step2).next_so_percentage,
               TheRow(e.step2).filled_so_count, 1, NoSettings) # NoSettings
        /\ ~ Called(e, "add_funds")

\* C4: an evaluation never lowers ProfitState.last_profit_percentage, except
\* a reset event, which sets it to 0
C4_ProfitMarkMonotone ==
    \A e \in Entries :
        e.engine = "profit" =>
            IF ProfitReset(e)
            THEN PostProfit(e).last_profit_percentage = 0
            ELSE PostProfit(e).last_profit_percentage >= PreProfit(e).last_profit_percentage

\* an evaluation raised a mark that was already set
C4_Witness ==
    \E e \in Entries :
        /\ e.engine = "profit"
        /\ PreProfit(e).last_profit_percentage > 0
        /\ PostProfit(e).last_profit_percentage > PreProfit(e).last_profit_percentage

\* C5: an evaluation that is not a reset event never lowers the persisted
\* stop-loss, last_readable_sl_percentage, whatever the threshold table
C5_StopLossMonotone ==
    \A e \in Entries :
        (e.engine = "profit" /\ ~ ProfitReset(e)) =>
            PostProfit(e).last_readable_sl_percentage
                >= PreProfit(e).last_readable_sl_percentage

\* C6: a second profit evaluation with identical deal data issues no remote
\* call and leaves ProfitState unchanged
C6_ProfitIdempotent ==
    \A e \in Entries :
        (e.engine = "profit" /\ e.repeat) =>
            (e.calls = << >> /\ RowsOf(deal_profit, e.deal.id) = e.pre_p)

\* C6 as amended: the same, provided the first evaluation had no failed
\* remote call and triggered no conditional-close stop (close or reset), and,
\* for a conditional-close deal, the recorded stop-loss is below the profit
C6_ProfitIdempotentAfterSuccess ==
    \A e \in Entries :
        ( /\ e.engine = "profit"
          /\ e.repeat
          /\ e.prev_events \cap {"update_failed", "close_failed", "deal_closed", "mp_reset"} = {}
          /\ Conditional(e.deal) =>
                 e.deal.actual_profit_percentage > PreProfit(e).last_readable_sl_percentage )
        => (e.calls = << >> /\ RowsOf(deal_profit, e.deal.id) = e.pre_p)

\* the evaluation after a successful update, with the same deal data
C6_Witness ==
    \E e \in Entries :
        /\ e.engine = "profit"
        /\ e.repeat
        /\ "profit_update" \in e.prev_events
        /\ ~ Conditional(e.deal)
        /\ e.calls = << >>

SafetyUnchanged(e) ==
    /\ RowsOf(deal_safety, e.deal.id) = e.pre_s
    /\ RowsOf(pending_orders, e.deal.id) = e.pre_po

\* C7: a second safety evaluation with identical deal data issues no remote
\* call and leaves SafetyState and PendingOrder unchanged
C7_SafetyIdempotent ==
    \A e \in Entries :
        (e.engine = "safety" /\ e.repeat) => (e.calls = << >> /\ SafetyUnchanged(e))

\* a placement is due: no pending order, and the drop lies between the next
\* safety-order level and the add-funds threshold
PlacementDue(e) ==
    /\ e.pre_po = {}
    /\ TotalProfit(e.deal) >= TheRow(e.pre_s).next_so_percentage
    /\ TotalProfit(e.deal) <= TheRow(e.pre_s).add_funds_percentage

\* C7 as amended: the same, provided the first evaluation issued no remote
\* call and left no placement due
C7_SafetyIdempotentWithoutCalls ==
    \A e \in Entries :
        (e.engine = "safety" /\ e.repeat /\ e.prev_calls = << >> /\ ~ PlacementDue(e))
        => (e.calls = << >> /\ SafetyUnchanged(e))

\* the evaluation after one that changed the stored state without a remote call
C7_Witness ==
    \E e \in Entries :
        /\ e.engine = "safety"
        /\ e.repeat
        /\ e.prev_calls = << >>
        /\ e.prev_events \cap {"safety_update", "safety_reset", "order_filled"} # {}
        /\ e.calls = << >>
        /\ SafetyUnchanged(e)

Qualifying(table, profit, so) ==
    { i \in 1..Len(table) :
        profit >= table[i].activation_percentage /\ so >= table[i].activation_so_count }

LastOf(indices) == CHOOSE i \in indices : \A j \in indices : j <= i

\* C8: the lookup returns the last entry in configuration order that
\* qualifies, and the empty result when none does; on the tie-break table it
\* returns B at (2.0, 0) and C at (2.0, 1)
C8_LastQualifyingEntry ==
    sel.done =>
        /\ LET q == Qualifying(sel.table, sel.profit, sel.so)
           IN  sel.result = IF q = {} THEN NoSettings ELSE sel.table[LastOf(q)]
        /\ (sel.table = TieBreakProfitConfig /\ sel.profit = 200 /\ sel.so = 0)
               => sel.result = TieBreakProfitConfig[2]
        /\ (sel.table = TieBreakProfitConfig /\ sel.profit = 200 /\ sel.so = 1)
               => sel.result = TieBreakProfitConfig[3]

\* the lookup on the tie-break table at (2.0, 1), where three entries qualify
C8_Witness ==
    /\ sel.done
    /\ sel.table = TieBreakProfitConfig
    /\ sel.profit = 200
    /\ sel.so = 1
    /\ sel.result = TieBreakProfitConfig[3]

\* C9: a simple-take-profit deal below its take-profit, with a matching tier
\* and profit above the stored mark: exactly one update_deal request, the
\* deal is monitored, and a successful request persists the current profit
C9_ActivationUpdate ==
    \A e \in Entries :
        ( /\ e.engine = "profit"
          /\ ~ Conditional(e.deal)
          /\ e.deal.actual_profit_percentage < e.deal.take_profit
          /\ Qualifying(section_profit_config, e.deal.actual_profit_percentage,
                        e.deal.completed_safety_orders_count) # {}
          /\ e.deal.actual_profit_percentage > PreProfit(e).last_profit_percentage )
        => ( /\ CountCalls(e, "update_deal") = 1
             /\ e.monitor = 1
             /\ e.o.update = "ok" =>
                    PostProfit(e).last_profit_percentage = e.deal.actual_profit_percentage )

\* the activation scenario: profit 3.5, tier (2.0, 0, sl 0.5), prior mark 0
C9_Witness ==
    \E e \in Entries :
        /\ section_profit_config = ScenarioProfitConfig
        /\ e.engine = "profit"
        /\ ~ Conditional(e.deal)
        /\ e.deal.actual_profit_percentage = 350
        /\ PreProfit(e).last_profit_percentage = 0
        /\ e.o.update = "ok"
        /\ CountCalls(e, "update_deal") = 1
        /\ PostProfit(e).last_profit_percentage = 350
        /\ PostProfit(e).last_readable_sl_percentage = 50

\* C10: with the drop below the next safety-order level in ordinary safety
\* evaluation no order is placed; trailing that had moved is reset to
\* (0, next_so_percentage), other state is left as it was
C10_BelowNextSoResets ==
    \A e \in Entries :
        ( /\ e.engine = "safety"
          /\ e.step2 # {}
          /\ TheRow(e.step2).filled_so_count # e.deal.max_safety_orders
          /\ TotalProfit(e.deal) - TheRow(e.step2).next_so_percentage < 0 )
        => LET row == TheRow(e.step2)
           IN  /\ ~ Called(e, "add_funds")
               /\ RowsOf(deal_safety, e.deal.id) =
                      { IF TrailingMoved(row)
                        THEN [row EXCEPT !.last_profit_percentage = 0,
                                         !.add_funds_percentage = row.next_so_percentage]
                        ELSE row }

\* the reset scenario: drop 4.9, next safety order at 5.0, trailing had moved
C10_Witness ==
    \E e \in Entries :
        /\ e.engine = "safety"
        /\ e.step2 # {}
        /\ TotalProfit(e.deal) = 490
        /\ TheRow(e.step2).next_so_percentage = 500
        /\ TheRow(e.step2).last_profit_percentage # 0
        /\ RowsOf(deal_safety, e.deal.id) =
               { [TheRow(e.step2) EXCEPT !.last_profit_percentage = 0,
                                         !.add_funds_percentage = 500] }

RowsOfBot(bot_id) ==
    { r \in deal_profit \cup deal_safety \cup pending_orders : r.botid = bot_id }

\* C11: after process_deals for a bot that reports zero active deals, no deal
\* is monitored, no remote call was issued, no row of the bot is left in the
\* three tables, and the rows of other bots are as they were
C11_NoDealsClearsBot ==
    (last.evaluated /\ last.listed = << >>) =>
        /\ last.monitoreddeals = 0
        /\ last.calls = << >>
        /\ RowsOfBot(Bot.id) = {}
        /\ RowsOfOtherBots(deal_profit, deal_safety, pending_orders, Bot.id) = last.others

\* a bot that had rows reported zero deals, beside another bot's rows
C11_Witness ==
    /\ last.evaluated
    /\ last.listed = << >>
    /\ last.had_rows
    /\ last.others # {}
    /\ RowsOfBot(Bot.id) = {}

\* C17: after process_deals, no row of the bot belongs to a deal id that is
\* absent from the bot's active-deal list
C17_AbsentDealsRemoved ==
    (last.evaluated /\ ~ last.raised) =>
        \A r \in RowsOfBot(Bot.id) :
            \E k \in 1..Len(last.listed) : last.listed[k] = r.dealid
\* C12: when the previous cycle was terminated between two commits of the
\* filled-order path and the platform shows no active order, the evaluation
\* after the restart leaves filled_so_count increased by number_of_so exactly
\* once and no PendingOrder row
C12_FilledOnceAcrossCrash ==
    \A e \in Entries :
        (e.engine = "safety" /\ ~ e.raised /\ e.pre_ex = 0) =>
            \A k \in e.after_kill :
                /\ RowsOf(pending_orders, e.deal.id) = {}
                /\ \A r \in RowsOf(deal_safety, e.deal.id) :
                       r.filled_so_count =
                           TheRow(k.safety).filled_so_count + TheRow(k.order).number_of_so

\* C16: in every reachable state filled_so_count of a deal is at most the
\* deal's max_safety_orders
C16_FilledWithinMax ==
    \A r \in deal_safety : r.filled_so_count <= Deal(r.dealid, 0, FALSE, 10000).max_safety_orders
WakeEntries == { wake.log[k] : k \in 1..Len(wake.log) }

\* the bot's timestamp as the wake-up found it; a bot without a row gets
\* the time of the wake-up
StoredTime(e) ==
    IF \E r \in e.bots_before : r.botid = e.bot
    THEN (CHOOSE r \in e.bots_before : r.botid = e.bot).next_processing_timestamp
    ELSE e.starttime

\* the deal list of the bot was requested
Fetched(e) == e.outcome \in {"fetch_failed", "evaluated", "raised"}

OtherBotTimes(table, bot) == { r \in table : r.botid # bot }

\* C13: a bot of a section with safety-mode "merge" is fetched at a wake-up
\* exactly when now >= next_processing_timestamp or the two are more than
\* checkInterval apart; it is passed over exactly when
\* now < next_processing_timestamp <= now + checkInterval
C13_DueRule ==
    \A e \in WakeEntries :
        lower(e.mode) = ModeMerge =>
            /\ Fetched(e) <=> ( \/ e.starttime >= StoredTime(e)
                                \/ Abs(StoredTime(e) - e.starttime) > CheckInterval )
            /\ e.outcome = "not_due" <=> ( /\ e.starttime < StoredTime(e)
                                           /\ StoredTime(e) <= e.starttime + CheckInterval )

\* a bot whose timestamp lies more than checkInterval ahead is evaluated
C13_Witness ==
    \E e \in WakeEntries :
        /\ lower(e.mode) = ModeMerge
        /\ StoredTime(e) > e.starttime + CheckInterval
        /\ e.outcome = "evaluated"

\* C14: after a bot was evaluated its timestamp is the time of the wake-up
\* plus monitorInterval when one of its deals requires monitoring and plus
\* checkInterval otherwise; the timestamps of other bots are as before
C14_NextTimestamp ==
    \A e \in WakeEntries :
        e.outcome = "evaluated" =>
            /\ \A r \in e.bots_after :
                   r.botid = e.bot =>
                       r.next_processing_timestamp =
                           e.starttime + (IF e.monitored > 0 THEN MonitorInterval
                                          ELSE CheckInterval)
            /\ \E r \in e.bots_after : r.botid = e.bot
            /\ OtherBotTimes(e.bots_after, e.bot) = OtherBotTimes(e.bots_before, e.bot)

\* a bot with a monitored deal is evaluated while another bot has a timestamp
C14_Witness ==
    \E e \in WakeEntries :
        /\ e.outcome = "evaluated"
        /\ e.monitored > 0
        /\ OtherBotTimes(e.bots_before, e.bot) # {}
        /\ \E r \in e.bots_after :
               r.botid = e.bot /\ r.next_processing_timestamp = e.starttime + MonitorInterval

\* C15: the bots of a section whose safety-mode is not "merge" (whatever the
\* case of the letters) are not fetched and nothing stored changes for
\* them, and the sections with "merge" are not skipped
C15_InvalidModeSkipped ==
    \A e \in WakeEntries :
        IF lower(e.mode) # ModeMerge
        THEN /\ e.outcome = "section_skipped"
             /\ e.bots_after = e.bots_before
             /\ e.rows_after = e.rows_before
        ELSE e.outcome # "section_skipped"

\* the tier the evaluation looked up for the deal
TierOf(e) ==
    get_settings(section_profit_config, e.deal.actual_profit_percentage,
                 e.deal.completed_safety_orders_count)

UsesCloseStrategy(e) == Len(e.deal.close_strategy_list) > 0

\* the evaluation sent the update that moves the trailing of a deal
TrailingUpdateSent(e) ==
    /\ e.engine = "profit"
    /\ TierOf(e) # NoSettings
    /\ Called(e, "update_deal")

\* C18: when the trailing update fails or is answered with other values
\* than requested, ProfitState stays as it was and the deal is monitored;
\* the next evaluation with the same deal data sends the update again
C18_FailedUpdateRetried ==
    \A e \in Entries :
        /\ (TrailingUpdateSent(e) /\ e.o.update # "ok")
               => ( /\ RowsOf(deal_profit, e.deal.id) = e.pre_p
                    /\ e.monitor = 1 )
        /\ ( /\ e.engine = "profit"
             /\ e.repeat
             /\ TierOf(e) # NoSettings
             /\ "update_failed" \in e.prev_events )
               => Called(e, "update_deal")

\* an update that was refused is sent again and answered with other values
C18_Witness ==
    \E e \in Entries :
        /\ TrailingUpdateSent(e)
        /\ e.repeat
        /\ "update_failed" \in e.prev_events
        /\ e.o.update = "mismatch"
        /\ e.monitor = 1
        /\ RowsOf(deal_profit, e.deal.id) = e.pre_p

\* a simple-take-profit deal below its take-profit for which no tier matches
\* while the stored mark is above the take-profit of the bot
TrailingReversed(e) ==
    /\ e.engine = "profit"
    /\ ~ UsesCloseStrategy(e)
    /\ e.deal.actual_profit_percentage < e.deal.take_profit
    /\ TierOf(e) = NoSettings
    /\ PreProfit(e).last_profit_percentage > Bot.take_profit

\* C19: a simple-take-profit deal with no matching tier and a stored mark
\* above the take-profit of the bot: one update with stop-loss 0 and the
\* take-profit of the bot is sent; ProfitState is (0, 0, 0) when the update
\* succeeds and as it was when it fails
C19_ResetOnSuccessOnly ==
    \A e \in Entries :
        TrailingReversed(e) =>
            /\ e.calls = << "update_deal" >>
            /\ e.payload = << [stop_loss_percentage |-> 0,
                               take_profit |-> Bot.take_profit,
                               stop_loss_timeout_in_seconds |-> 0] >>
            /\ IF e.o.update = "ok"
               THEN RowsOf(deal_profit, e.deal.id)
                        = { ProfitRow(e.deal.id, Bot.id, 0, 0, 0) }
               ELSE RowsOf(deal_profit, e.deal.id) = e.pre_p

\* trailing that was active is reset: the profit fell below the lowest tier
C19_Witness ==
    \E e \in Entries :
        /\ TrailingReversed(e)
        /\ e.o.update = "ok"
        /\ PreProfit(e).last_readable_sl_percentage > 0
        /\ RowsOf(deal_profit, e.deal.id) = { ProfitRow(e.deal.id, Bot.id, 0, 0, 0) }

\* the evaluation of a conditional-close deal whose profit rose above the
\* stored mark while a tier matches
ConditionalTrailing(e) ==
    /\ e.engine = "profit"
    /\ UsesCloseStrategy(e)
    /\ TierOf(e) # NoSettings
    /\ e.deal.actual_profit_percentage > PreProfit(e).last_profit_percentage

\* C20: the profit evaluation of a deal with a close strategy never sends
\* update_deal; with a matching tier and a profit above the stored mark the
\* profit and the readable SL and TP are written to ProfitState
C20_ConditionalLocalOnly ==
    \A e \in Entries :
        /\ (e.engine = "profit" /\ UsesCloseStrategy(e))
               => (~ Called(e, "update_deal") /\ e.payload = << >>)
        /\ ConditionalTrailing(e)
               => RowsOf(deal_profit, e.deal.id)
                    = { ProfitRow(e.deal.id, Bot.id, e.deal.actual_profit_percentage,
                           TierOf(e).initial_stoploss_percentage
                             + Scale(e.deal.actual_profit_percentage
                                       - TierOf(e).activation_percentage,
                                     TierOf(e).sl_increment_factor),
                           e.deal.take_profit
                             + Scale(e.deal.actual_profit_percentage
                                       - TierOf(e).activation_percentage,
                                     TierOf(e).tp_increment_factor)) }

\* a conditional-close deal whose stored mark is raised by a tier with
\* increment factors
C20_Witness ==
    \E e \in Entries :
        /\ ConditionalTrailing(e)
        /\ PreProfit(e).last_profit_percentage > 0
        /\ TierOf(e).sl_increment_factor > 0
        /\ PostProfit(e).last_profit_percentage = e.deal.actual_profit_percentage
        /\ PostProfit(e).last_readable_sl_percentage
               > TierOf(e).initial_stoploss_percentage
        /\ e.calls = << >>

\* the evaluation took the branch of handle_deal_profit that sends no update
\* of trailing: no tier matches or the profit is not above the stored mark
NoUpdateBranch(e) ==
    /\ e.engine = "profit"
    /\ ~ (e.deal.actual_profit_percentage >= e.deal.take_profit /\ ~ UsesCloseStrategy(e))
    /\ ~ ( /\ TierOf(e) # NoSettings
           /\ e.deal.actual_profit_percentage > PreProfit(e).last_profit_percentage )

\* C21: a deal is closed (panic_sell) only in the profit evaluation of a
\* deal with a close strategy, in the branch without update, at a profit at
\* or below the stored readable stop-loss and at or above the minimum profit
\* of the deal; the attempt leaves ProfitState as it was
C21_CloseOnlyAtLocalStop ==
    \A e \in Entries :
        Called(e, "panic_sell") =>
            /\ NoUpdateBranch(e)
            /\ UsesCloseStrategy(e)
            /\ e.deal.actual_profit_percentage <= PreProfit(e).last_readable_sl_percentage
            /\ e.deal.actual_profit_percentage >= e.deal.min_profit_percentage
            /\ RowsOf(deal_profit, e.deal.id) = e.pre_p

\* the close of a deal whose profit fell to its stored stop was refused
C21_Witness ==
    \E e \in Entries :
        /\ Called(e, "panic_sell")
        /\ "close_failed" \in e.events
        /\ PreProfit(e).last_readable_sl_percentage > 0
        /\ RowsOf(deal_profit, e.deal.id) = e.pre_p

\* a deal with a close strategy, in the branch without update, at a profit
\* below its minimum profit
BelowMinimumProfit(e) ==
    /\ NoUpdateBranch(e)
    /\ UsesCloseStrategy(e)
    /\ e.deal.actual_profit_percentage < e.deal.min_profit_percentage

\* C22: for a deal with a close strategy in the branch without update, at a
\* profit below the minimum profit of the deal, ProfitState is (0, 0, 0)
\* afterwards and the deal is not closed
C22_BelowMinimumResets ==
    \A e \in Entries :
        BelowMinimumProfit(e) =>
            /\ RowsOf(deal_profit, e.deal.id) = { ProfitRow(e.deal.id, Bot.id, 0, 0, 0) }
            /\ ~ Called(e, "panic_sell")

\* C22 as amended: the same, provided the profit is at or below the stored
\* readable stop-loss
C22_BelowMinimumAtStopResets ==
    \A e \in Entries :
        ( /\ BelowMinimumProfit(e)
          /\ e.deal.actual_profit_percentage <= PreProfit(e).last_readable_sl_percentage )
        => /\ RowsOf(deal_profit, e.deal.id) = { ProfitRow(e.deal.id, Bot.id, 0, 0, 0) }
           /\ ~ Called(e, "panic_sell")

\* trailing of a deal is abandoned: the profit fell below the minimum profit
\* and to the stored stop
C22_Witness ==
    \E e \in Entries :
        /\ BelowMinimumProfit(e)
        /\ PreProfit(e).last_profit_percentage > 0
        /\ e.deal.actual_profit_percentage <= PreProfit(e).last_readable_sl_percentage
        /\ "mp_reset" \in e.events
        /\ RowsOf(deal_profit, e.deal.id) = { ProfitRow(e.deal.id, Bot.id, 0, 0, 0) }

\* C23: in the branch of the profit evaluation without update the deal is
\* monitored exactly when the profit table of the section is not empty
C23_MonitoredWhileTableNotEmpty ==
    \A e \in Entries :
        NoUpdateBranch(e) =>
            e.monitor = (IF Len(section_profit_config) > 0 THEN 1 ELSE 0)

\* the safety evaluation of a deal that has a PendingOrder row while the
\* platform shows an active manual safety order of the deal
OrderOutstanding(e) ==
    /\ e.engine = "safety"
    /\ e.pre_po # {}
    /\ e.deal.active_manual_safety_orders > 0

\* the evaluation left the order alone
KeptWaiting(e) ==
    /\ ~ Called(e, "cancel_order")
    /\ SafetyUnchanged(e)
    /\ e.monitor = 1

\* C24: with a PendingOrder and an active manual safety order the evaluation
\* keeps waiting (no cancel request, no change of state, monitored) exactly
\* when the total drop is below cancel_at_percentage of the order, and
\* requests the cancellation otherwise
C24_WaitsBelowCancelAt ==
    \A e \in Entries :
        OrderOutstanding(e) =>
            IF TotalProfit(e.deal) < TheRow(e.pre_po).cancel_at_percentage
            THEN KeptWaiting(e)
            ELSE Called(e, "cancel_order")

\* C24 as amended: the evaluation keeps waiting exactly when the total drop
\* is at or beyond cancel_at_percentage, and requests the cancellation when
\* the drop is below it
C24_WaitsAtOrBeyondCancelAt ==
    \A e \in Entries :
        OrderOutstanding(e) =>
            IF TotalProfit(e.deal) >= TheRow(e.pre_po).cancel_at_percentage
            THEN KeptWaiting(e)
            ELSE Called(e, "cancel_order")

\* the cancellation of an order is requested after the price recovered to
\* a drop of 4.9 percent, above the order at 5.0
C24_Witness ==
    \E e \in Entries :
        /\ OrderOutstanding(e)
        /\ TotalProfit(e.deal) < TheRow(e.pre_po).cancel_at_percentage
        /\ TotalProfit(e.deal) = 490
        /\ Called(e, "cancel_order")

PostSafety(e) == TheRow(RowsOf(deal_safety, e.deal.id))

PreSafety(e) == TheRow(e.pre_s)

PreOrder(e) == TheRow(e.pre_po)

\* C25: after a confirmed cancellation the deal has no PendingOrder row and
\* its SafetyState is the one before with last_profit_percentage = 0 and
\* add_funds_percentage = next_so_percentage of the order
C25_CancelledOrderResetsTrailing ==
    \A e \in Entries :
        "order_cancelled" \in e.events =>
            /\ RowsOf(pending_orders, e.deal.id) = {}
            /\ PostSafety(e) = [PreSafety(e) EXCEPT
                                   !.last_profit_percentage = 0,
                                   !.add_funds_percentage = PreOrder(e).next_so_percentage]

\* the order the platform lists under the id, if it lists one
ListedOrders(data, order_id) ==
    { k \in 1..Len(data) : data[k].order_id = order_id }

\* the platform reports the order as filled
ReportedFilled(data, order_id) ==
    \E k \in ListedOrders(data, order_id) : data[k].status_string = "filled"

\* the cancellation of the pending order was requested and refused
CancelRefused(e) ==
    /\ OrderOutstanding(e)
    /\ Called(e, "cancel_order")
    /\ e.o.cancel # "cancelled"

\* C26: after a refused cancellation the status of the order is asked for;
\* if the platform reports the order filled the filled-order handling
\* runs, otherwise SafetyState and PendingOrder stay as they were and the
\* deal is monitored; the next evaluation of the same deal data requests
\* the cancellation again
C26_RefusedCancelChecksStatus ==
    \A e \in Entries :
        /\ CancelRefused(e) =>
              /\ Called(e, "market_orders")
              /\ IF ReportedFilled(e.o.market_orders, PreOrder(e).order_id)
                 THEN "order_filled" \in e.events
                 ELSE SafetyUnchanged(e) /\ e.monitor = 1
        /\ ( /\ OrderOutstanding(e)
             /\ e.repeat
             /\ "order_filled" \notin e.prev_events
             /\ \E k \in 1..Len(e.prev_calls) : e.prev_calls[k] = "market_orders" )
           => Called(e, "cancel_order")

\* the deal has a PendingOrder row and no active manual safety order
OrderFilled(e) ==
    /\ e.engine = "safety"
    /\ e.pre_po # {}
    /\ e.deal.active_manual_safety_orders = 0

\* C27: with a PendingOrder and no active manual safety order the
\* evaluation adds number_of_so of the order to filled_so_count, takes
\* next_so_percentage and shift_percentage from the order, sets
\* last_profit_percentage = 0 and add_funds_percentage to the
\* next_so_percentage of the order, and deletes the PendingOrder
C27_FilledOrderAccounted ==
    \A e \in Entries :
        OrderFilled(e) =>
            /\ RowsOf(pending_orders, e.deal.id) = {}
            /\ PostSafety(e) =
                  SafetyRow(e.deal.id, PreSafety(e).botid, 0,
                            PreOrder(e).next_so_percentage,
                            PreOrder(e).next_so_percentage,
                            PreSafety(e).filled_so_count + PreOrder(e).number_of_so,
                            PreOrder(e).shift_percentage)

\* Step 1 resolved the pending order: it was cancelled or found filled
Resolved(e) == e.events \cap {"order_cancelled", "order_filled"} # {}

\* C28: when Step 1 resolves the pending order, Step 2 is not entered in
\* that evaluation: no trailing update, trailing reset or placement, and the
\* deal is not monitored
C28_ResolutionEndsEvaluation ==
    \A e \in Entries :
        (e.engine = "safety" /\ Resolved(e)) =>
            /\ e.step2 = {}
            /\ e.events \cap {"safety_update", "safety_reset", "safety_missed"} = {}
            /\ ~ Called(e, "add_funds")
            /\ e.monitor = 0

\* the tier Step 2 looks up for the SafetyState it was entered with
SafetyTierOf(e) ==
    get_settings(section_safety_config,
                 TotalProfit(e.deal) - TheRow(e.step2).next_so_percentage,
                 TheRow(e.step2).filled_so_count)

\* Step 2 with a matching tier at a drop beyond the stored low-water mark
NewLow(e) ==
    /\ e.engine = "safety"
    /\ e.step2 # {}
    /\ TheRow(e.step2).filled_so_count # e.deal.max_safety_orders
    /\ TotalProfit(e.deal) >= TheRow(e.step2).next_so_percentage
    /\ SafetyTierOf(e) # NoSettings
    /\ TotalProfit(e.deal) > TheRow(e.step2).last_profit_percentage

\* the threshold the tier gives at the drop: next_so_percentage plus the
\* initial buy, plus the factor times the drop beyond that
CandidateAddFunds(e) ==
    TheRow(e.step2).next_so_percentage + SafetyTierOf(e).initial_buy_percentage
      + Scale(TotalProfit(e.deal) - TheRow(e.step2).next_so_percentage
                - SafetyTierOf(e).initial_buy_percentage,
              SafetyTierOf(e).buy_increment_factor)

\* the evaluation of the deal reset its trailing, or resolved or placed an
\* order, or was terminated
TrailingRestarted(e) ==
    e.raised \/ e.events \cap {"safety_reset", "safety_missed", "order_filled",
                               "order_cancelled", "order_filled_immediately",
                               "killed"} # {}

\* C29: in Step 2 with a matching tier and a drop beyond the stored mark,
\* (last_profit_percentage, add_funds_percentage) becomes (drop, new
\* threshold) when the new threshold is larger in magnitude than the stored
\* one and stays as it was otherwise; an evaluation without reset, fill or
\* cancellation lowers neither value
C29_TrailingOnlyGrows ==
    \A e \in Entries :
        /\ NewLow(e) =>
              RowsOf(deal_safety, e.deal.id) =
                  { IF Abs(CandidateAddFunds(e)) > Abs(TheRow(e.step2).add_funds_percentage)
                    THEN [TheRow(e.step2) EXCEPT
                             !.last_profit_percentage = TotalProfit(e.deal),
                             !.add_funds_percentage = CandidateAddFunds(e)]
                    ELSE TheRow(e.step2) }
        /\ (e.engine = "safety" /\ ~ TrailingRestarted(e)) =>
              /\ PostSafety(e).last_profit_percentage >= PreSafety(e).last_profit_percentage
              /\ PostSafety(e).add_funds_percentage >= PreSafety(e).add_funds_percentage

\* a new low for which the deeper tier gives a smaller threshold than the
\* stored one: nothing is written
C29_Witness ==
    \E e \in Entries :
        /\ NewLow(e)
        /\ TheRow(e.step2).last_profit_percentage > 0
        /\ CandidateAddFunds(e) < TheRow(e.step2).add_funds_percentage
        /\ RowsOf(deal_safety, e.deal.id) = e.step2
        /\ e.monitor = 1

\* the add_funds request of the evaluation was accepted
FundsAdded(e) ==
    /\ e.engine = "safety"
    /\ Called(e, "add_funds")
    /\ e.o.addfunds # "rejected"

\* C30: after an accepted add_funds request either the lookup returned the
\* id of an active manual safety order, a PendingOrder row was created and
\* SafetyState is as it was, or the lookup returned no id, filled_so_count
\* was raised, trailing was reset to (0, new next_so_percentage) and no
\* PendingOrder row was created
C30_PlacementPersisted ==
    \A e \in Entries :
        FundsAdded(e) =>
            \/ /\ "order_created" \in e.events
               /\ RowsOf(pending_orders, e.deal.id) # {}
               /\ RowsOf(deal_safety, e.deal.id) = e.pre_s
            \/ /\ "order_filled_immediately" \in e.events
               /\ RowsOf(pending_orders, e.deal.id) = {}
               /\ PostSafety(e).filled_so_count > PreSafety(e).filled_so_count
               /\ PostSafety(e).last_profit_percentage = 0
               /\ PostSafety(e).add_funds_percentage = PostSafety(e).next_so_percentage

\* the placement of the evaluation got no pricing data or was rejected
PlacementFailed(e) ==
    /\ e.engine = "safety"
    /\ Called(e, "data_for_adding_funds")
    /\ (~ e.o.limitdata \/ e.o.addfunds = "rejected")

\* C31: a placement that gets no pricing data, or whose add_funds request
\* is rejected, leaves SafetyState as Step 2 found it, creates no
\* PendingOrder row and does not end the process; the next evaluation of
\* the same deal data attempts the placement again
C31_FailedPlacementRetried ==
    \A e \in Entries :
        /\ PlacementFailed(e) =>
              /\ RowsOf(deal_safety, e.deal.id) = e.step2
              /\ RowsOf(pending_orders, e.deal.id) = {}
              /\ ~ e.raised
              /\ Called(e, "add_funds") <=> e.o.limitdata
        /\ ( /\ e.engine = "safety"
             /\ e.repeat
             /\ \E k \in 1..Len(e.prev_calls) : e.prev_calls[k] = "data_for_adding_funds"
             /\ ~ e.prev_raised )
           => Called(e, "data_for_adding_funds")

\* a rejected placement is attempted again and rejected again
C31_Witness ==
    \E e \in Entries :
        /\ PlacementFailed(e)
        /\ e.o.limitdata
        /\ Called(e, "add_funds")
        /\ e.repeat
        /\ \E k \in 1..Len(e.prev_calls) : e.prev_calls[k] = "data_for_adding_funds"
        /\ ~ e.prev_raised
        /\ SafetyUnchanged(e)

\* the deal fails one of the three checks at the head of the loop
Rejected(deal) ==
    \/ deal.strategy \notin {"short", "long"}
    \/ ~ deal.profit_ok
    \/ deal.status \notin {"bought", "close_strategy_activated"}

\* C32: a deal with an unknown strategy, without a valid profit or with a
\* status other than bought or close_strategy_activated is passed over: no
\* engine runs on it, no request is made for it, no row is created for it,
\* the evaluation does not end and the deals listed after it are evaluated
C32_RejectedDealSkipped ==
    \A k \in 1..Len(last.log) :
        Rejected(last.log[k].deal) =>
            /\ last.log[k].engine = "skipped"
            /\ last.log[k].calls = << >>
            /\ last.log[k].events = {}
            /\ RowsOf(deal_profit, last.log[k].deal.id) \subseteq last.log[k].pre_p
            /\ RowsOf(deal_safety, last.log[k].deal.id) \subseteq last.log[k].pre_s
            /\ RowsOf(pending_orders, last.log[k].deal.id) \subseteq last.log[k].pre_po
            /\ ~ last.raised
            /\ \A j \in (k + 1)..Len(last.log) :
                  (~ Rejected(last.log[j].deal) /\ last.log[j].deal.valid)
                      => last.log[j].engine # "skipped"

\* a deal in status created is passed over and the deal listed after it
\* gets its trailing update
C32_Witness ==
    /\ Len(last.log) = 2
    /\ last.log[1].deal.status = "created"
    /\ last.log[1].engine = "skipped"
    /\ last.log[1].pre_p = {}
    /\ RowsOf(deal_profit, last.log[1].deal.id) = {}
    /\ last.log[2].engine = "profit"
    /\ "profit_update" \in last.log[2].events

\* the entries of the last wake-up in which the evaluation of a bot raised
RaisedAt(w) == { k \in 1..Len(w.log) : w.log[k].outcome = "raised" }

\* the stored timestamp of a bot
TimesOf(table, bot) == { r.next_processing_timestamp : r \in { x \in table : x.botid = bot } }

\* C33: an exception in the evaluation of a bot ends the process: the bot's
\* timestamp stays as it was read, the bots after it are not looked at in
\* that wake-up, and nothing is evaluated until the process is started again
C33_ExceptionEndsProcess ==
    [][ /\ ~ running => (wake' = wake /\ bots' = bots /\ deal_safety' = deal_safety)
        /\ \A k \in RaisedAt(wake') :
              wake' # wake =>
                  /\ k = Len(wake'.log)
                  /\ ~ running'
                  /\ bots' = wake'.log[k].bots_after
                  /\ TimesOf(bots', wake'.log[k].bot) = { wake'.log[k].nextprocesstime }
        /\ (wake' # wake /\ RaisedAt(wake') = {}) => running' ]_vars

\* the evaluation of the first of three listed bots raised in a wake-up
\* later than the one that set its timestamp
C33_Witness ==
    /\ ~ running
    /\ Len(Jobs) = 3
    /\ Len(wake.log) = 1
    /\ wake.log[1].outcome = "raised"
    /\ wake.log[1].nextprocesstime < wake.log[1].starttime

\* C34: the rows of a deal that is in the bot's list of active deals are
\* not deleted by the evaluation of the bot: a deal that had a ProfitState
\* or a SafetyState row still has one, and a PendingOrder row is removed by
\* the safety engine only
C34_ListedDealsKeepRows ==
    \A k \in 1..Len(last.log) :
        /\ last.log[k].pre_p # {} => RowsOf(deal_profit, last.log[k].deal.id) # {}
        /\ last.log[k].pre_s # {} => RowsOf(deal_safety, last.log[k].deal.id) # {}
        /\ last.log[k].engine # "safety" =>
               last.log[k].pre_po \subseteq RowsOf(pending_orders, last.log[k].deal.id)

\* C35: a PendingOrder row of a deal that stays in the list of active deals
\* of a bot that keeps being evaluated is removed in the end
C35_PendingOrderResolved == (pending_orders # {}) ~> (pending_orders = {})

\* C36: an evaluation of a deal after which a PendingOrder row of the deal
\* is in the table reports that the deal requires monitoring
C36_OutstandingOrderMonitored ==
    \A e \in Entries :
        ( /\ e.engine # "skipped"
          /\ ~ e.raised
          /\ RowsOf(pending_orders, e.deal.id) # {} )
        => e.monitor = 1

\* the evaluation came to the placement of an averaging order
PlacementTried(e) == Called(e, "data_for_adding_funds") \/ Called(e, "add_funds")

\* the SafetyState with which the evaluation entered Step 2
Step2Row(e) == TheRow(e.step2)

\* C37: funds are added only in an evaluation whose total drop lies between
\* next_so_percentage and add_funds_percentage and is not deeper than
\* last_profit_percentage, hence never in an evaluation that finds the
\* trailing reset (last_profit_percentage 0)
C37_AddFundsInsideWindow ==
    \A e \in Entries :
        PlacementTried(e) =>
            /\ e.engine = "safety"
            /\ e.step2 # {}
            /\ Step2Row(e).next_so_percentage <= TotalProfit(e.deal)
            /\ TotalProfit(e.deal) <= Step2Row(e).add_funds_percentage
            /\ TotalProfit(e.deal) <= Step2Row(e).last_profit_percentage
            /\ Step2Row(e).last_profit_percentage # 0
            /\ \A r \in e.pre_s : r.last_profit_percentage # 0

\* funds are added for a deal that came back from a deeper drop
C37_Witness ==
    \E e \in Entries :
        /\ Called(e, "add_funds")
        /\ e.step2 # {}
        /\ Step2Row(e).next_so_percentage < TotalProfit(e.deal)
        /\ TotalProfit(e.deal) < Step2Row(e).add_funds_percentage
        /\ TotalProfit(e.deal) < Step2Row(e).last_profit_percentage

\* the deals of the bot were evaluated
Evaluated(e) == e.outcome \in {"evaluated", "raised"}

\* C38: in one wake-up no bot is evaluated twice
C38_EvaluatedOncePerWakeUp ==
    \A i, j \in 1..Len(wake.log) :
        (i < j /\ wake.log[i].bot = wake.log[j].bot)
            => ~ (Evaluated(wake.log[i]) /\ Evaluated(wake.log[j]))

\* what the wake-up w did at the first listing of the bot
FirstListing(w, bot) ==
    { w.log[k] : k \in { i \in 1..Len(w.log) :
                            /\ w.log[i].bot = bot
                            /\ \A j \in 1..(i - 1) : w.log[j].bot # bot } }

\* the bot is found due at its first listing in the wake-up w
DueIn(w, bot) == \A e \in FirstListing(w, bot) : e.outcome # "not_due"

HasStateRow(table, row) == \E r \in table : r.dealid = row.dealid /\ r.botid = row.botid

\* C40: a deal with a PendingOrder row has a SafetyState row and a
\* ProfitState row under the same bot id
C40_PendingOrderHasStateRows ==
    \A row \in pending_orders :
        HasStateRow(deal_profit, row) /\ HasStateRow(deal_safety, row)

\* the three rows of deal 1 were deleted in an evaluation that created the
\* rows of deal 2, and the pending order of the other bot is still there
C40_Witness ==
    /\ last.evaluated
    /\ last.had_rows
    /\ RowsOf(deal_profit, 1) \cup RowsOf(deal_safety, 1) \cup RowsOf(pending_orders, 1) = {}
    /\ RowsOf(deal_profit, 2) # {}
    /\ RowsOf(deal_safety, 2) # {}
    /\ pending_orders = OtherBotPending

====
